---- MODULE Spec2Model ----
\* Model of the Thermostat-Controller control and message-routing engine.
\*
\* Numbers.  Python floats are modelled by integers in hundredths: a temperature
\* of 21.5 Celsius is 2150, an hour of 3.0 is 300.  Text produced by '%.1f' is
\* modelled by the value in tenths (Fmt1).
EXTENDS Integers, Sequences, FiniteSets, TLC

\* ---------------------------------------------------------------------------
\* Program constants
\* ---------------------------------------------------------------------------
CMD_THERMO_POWER == 1
CMD_OVERRIDE == 2
CMD_RULE_CHANGE == 3
CMD_TIME_REQUEST == 5
CMD_STATUS == 6
CMD_SHUTDOWN == 7

STATUS_OFF == 2
STATUS_ON == 3
STATUS_GET == 4

RELAY_ON == TRUE
RELAY_OFF == FALSE
THERMOSTAT_ON == RELAY_ON
THERMOSTAT_OFF == RELAY_OFF

MIN_TEMPERATURE == 1000
MAX_TEMPERATURE == 2500
TEMPERATURE_BUFFER == 15
ABSOLUTE_ZERO == -27300

\* run_thermo.py: the control interval of a debug run, handed to the Thermostat
\* as data_cycles: every data_cycles-th pass of the control loop forces a
\* database update
DEBUG_CONTROL_INTERVAL == 3
data_cycles == DEBUG_CONTROL_INTERVAL

XBEE_RX_MESSAGE == 1
XBEE_TX_MESSAGE == 2
THERMO_TX_MESSAGE == 4
LAN_TX_MESSAGE == 6
DISPLAY_TX_MESSAGE == 8

LED_ON == 1
LED_OFF == 0
BTN_ON == 1
BTN_OFF == 0
SET_STATUS == 0
PROGRAM_BTN == 0
RELAY_LED == 1
OVER_BTN == 2
OVER_SCALE == 4
INSIDE_TEMP == 5
SETPOINT_TEMP == 7
POWER_LED == 8
OUTSIDE_TEMP == 6

TEMPERATURE_CODE == 1
LUMINOSITY_CODE == 2
PRESSURE_CODE == 3
HUMIDITY_CODE == 4
POWER_CODE == 5
LUX_CODE == 6
HEATING_CODE == 7
THERMOSTAT_CODE == 8
TEMP_12BYTE_CODE == 9
BATTERY_SOC_CODE == 10
OVERRIDE_CODE == 11


\* Python's None, and the outcome "pigpio.error raised" of a sensor read
None == -99999
SensorError == -88888

\* ---------------------------------------------------------------------------
\* Bounds of the model
\* ---------------------------------------------------------------------------
\* producers add to the queue only while it holds fewer messages than this
MaxQueue == 1
\* the backward rule scan is followed for at most this many one-day steps
MaxScanSteps == 8

\* sensor readings, around the limits and around the targets used below
Temps == {900, 1000, 1915, 2600}
Humidities == {4500}
\* weekday (tm_wday) and hour of day read from the clock
Clock == { [day |-> 1, hour |-> 300], [day |-> 1, hour |-> 900],
           [day |-> 5, hour |-> 300] }

\* ---------------------------------------------------------------------------
\* Rules (simple_types.RULE_DAYS and the configured rule table)
\* ---------------------------------------------------------------------------
RULE_DAYS == [d \in {"Monday", "Tuesday", "Wednesday", "Thursday", "Friday",
                     "Saturday", "Sunday", "Weekdays", "Weekends", "Everyday"} |->
              CASE d = "Monday" -> 0 [] d = "Tuesday" -> 1 [] d = "Wednesday" -> 2
                [] d = "Thursday" -> 3 [] d = "Friday" -> 4 [] d = "Saturday" -> 5
                [] d = "Sunday" -> 6 [] d = "Weekdays" -> 7 [] d = "Weekends" -> 8
                [] d = "Everyday" -> 9]

Rule(d, tm, temp) == [day |-> d, time |-> tm, temperature |-> temp]

\* the rule tables the program may be configured with
RuleTables == { <<>>,
                << Rule("Weekdays", 800, 1800), Rule("Everyday", 0, 1900) >>,
                << Rule("Tuesday", 800, 1900) >> }

rule_applies(rule, weekday, hour) ==
    /\ hour >= rule.time
    /\ \/ RULE_DAYS[rule.day] = RULE_DAYS["Everyday"]
       \/ weekday = RULE_DAYS[rule.day]
       \/ (RULE_DAYS[rule.day] = RULE_DAYS["Weekdays"]) /\ (weekday <= RULE_DAYS["Friday"])
       \/ (RULE_DAYS[rule.day] = RULE_DAYS["Weekends"]) /\ (weekday >= RULE_DAYS["Saturday"])

\* ---------------------------------------------------------------------------
\* Messages
\* ---------------------------------------------------------------------------
Command(Cmd, SubCmd, CmdData) == [command |-> Cmd, subcommand |-> SubCmd, data |-> CmdData]

DataPacket(Host, Port, Packet) == [host |-> Host, port |-> Port, packet |-> Packet]
DBPacket(Packet) == DataPacket("None", "None", Packet)
DisplayPacket(Packet) == DataPacket("DISPLAY", "DISPLAY", Packet)

ThermostatTxMessage(Packet) == [id |-> THERMO_TX_MESSAGE, data |-> Packet]
LANTxMessage(Packet) == [id |-> LAN_TX_MESSAGE, data |-> Packet]
DisplayTxMessage(command) == [id |-> DISPLAY_TX_MESSAGE, data |-> DisplayPacket(command)]

is_http(msg) == msg.data.host = "None"

\* a response string of the LAN protocol
Text(s) == [text |-> s]

\* '%.1f' % x : x in hundredths, the text as a value in tenths
Fmt1(x) == IF x >= 0 THEN (x + 5) \div 10 ELSE -((5 - x) \div 10)

VARIABLES
    thermo_on, relay_on, override_on, override_temp, setpoint, temperature,
    indoor_temp_str, setpoint_str, gpio_relay,
    rules, non_printing_loops, thermo_pc,
    message_list, kill_event, kill_timer, main_pc, lan_pc,
    last, prev_eval,
    local_db, max_id, undeleted, xbee_pc

engine == << thermo_on, relay_on, override_on, override_temp, setpoint, temperature,
             indoor_temp_str, setpoint_str, gpio_relay >>

\* the table of the local store on disk, with what is remembered of its past:
\* the largest id an INSERT has given, and the ids whose deletion failed after
\* they were read
storage == << local_db, max_id, undeleted >>

vars == << thermo_on, relay_on, override_on, override_temp, setpoint, temperature,
           indoor_temp_str, setpoint_str, gpio_relay,
           rules, non_printing_loops, thermo_pc,
           message_list, kill_event, kill_timer, main_pc, lan_pc,
           last, prev_eval,
           local_db, max_id, undeleted, xbee_pc >>

\* ---------------------------------------------------------------------------
\* Thermostat engine (thermostat.py).  The methods are operators on a record S
\* holding the object's members, the local update_db of an evaluation, and
\* out, the messages handed to the event handler so far.
\* ---------------------------------------------------------------------------
Self == [thermo_on |-> thermo_on, relay_on |-> relay_on, override_on |-> override_on,
         override_temp |-> override_temp, setpoint |-> setpoint,
         temperature |-> temperature, indoor_temp_str |-> indoor_temp_str,
         setpoint_str |-> setpoint_str, gpio_relay |-> gpio_relay,
         update_db |-> FALSE, out |-> <<>>]

\* run_thermo.queue_message, the event handler of every thread
ehandler(S, in_msg) == [S EXCEPT !.out = Append(@, in_msg)]

DisplayStatus(sub, data) == DisplayTxMessage(Command(SET_STATUS, sub, data))

set_thermo_status(S, PowerStatus) ==
    IF S.thermo_on # PowerStatus
    THEN ehandler([S EXCEPT !.thermo_on = PowerStatus],
                  DisplayStatus(PROGRAM_BTN,
                                IF PowerStatus = THERMOSTAT_ON THEN BTN_ON ELSE BTN_OFF))
    ELSE S

\* variant: the relay is written and shown whether or not it changes
set_relay_status_Always(S, RelayStatus) ==
    IF RelayStatus = RELAY_ON
    THEN ehandler([S EXCEPT !.relay_on = RelayStatus, !.gpio_relay = 0],
                  DisplayStatus(RELAY_LED, LED_ON))
    ELSE ehandler([S EXCEPT !.relay_on = RelayStatus, !.gpio_relay = 1],
                  DisplayStatus(RELAY_LED, LED_OFF))

set_relay_status(S, RelayStatus) ==
    IF S.relay_on # RelayStatus
    THEN IF RelayStatus = RELAY_ON
         THEN ehandler([S EXCEPT !.relay_on = RelayStatus, !.gpio_relay = 0],
                       DisplayStatus(RELAY_LED, LED_ON))
         ELSE ehandler([S EXCEPT !.relay_on = RelayStatus, !.gpio_relay = 1],
                       DisplayStatus(RELAY_LED, LED_OFF))
    ELSE S

\* the query string: base, radio id and one '&key=%f' per entry of data
create_request(data) ==
    [radio_id |-> "thermo_radio", temperature |-> data.temperature,
     thermo_on |-> data.thermo_on, heating_on |-> data.heating_on,
     override |-> data.override, humidity |-> data.humidity]

\* temperature_arg: the argument; tread, hread: what read_temperature and
\* read_humidity return (SensorError when they raise pigpio.error)
update_database(S, temperature_arg, tread, hread) ==
    LET cur_temp == IF temperature_arg = ABSOLUTE_ZERO THEN tread ELSE temperature_arg
        cur_data == [temperature |-> cur_temp,
                     thermo_on |-> IF S.thermo_on THEN 100 ELSE 0,
                     heating_on |-> IF S.relay_on THEN 100 ELSE 0,
                     override |-> IF S.override_on THEN S.setpoint ELSE None,
                     humidity |-> IF hread = SensorError THEN None ELSE hread]
    IN  IF cur_temp = SensorError
        THEN S
        ELSE ehandler(S, LANTxMessage(DBPacket(create_request(cur_data))))

\* variant: a failed read switches the relay off
evaluate_failed_RelayOff(S) == set_relay_status(S, RELAY_OFF)

\* _evaluate_programming, lines 377-378: a failed read is logged, nothing else
evaluate_failed(S) == S

\* variant: the temperature is displayed in every pass
evaluate_read_Always(S, cur_temp, ForceUpdate) ==
    LET temp_str == Fmt1(cur_temp)
        S1 == [S EXCEPT !.temperature = cur_temp, !.update_db = ForceUpdate]
    IN  [ehandler(S1, DisplayStatus(INSIDE_TEMP, temp_str))
            EXCEPT !.indoor_temp_str = temp_str]

\* _evaluate_programming, lines 373-390: the reading is stored and displayed
evaluate_read(S, cur_temp, ForceUpdate) ==
    LET temp_str == Fmt1(cur_temp)
        S1 == [S EXCEPT !.temperature = cur_temp, !.update_db = ForceUpdate]
    IN  IF S1.indoor_temp_str # temp_str
        THEN [ehandler(S1, DisplayStatus(INSIDE_TEMP, temp_str))
                 EXCEPT !.indoor_temp_str = temp_str]
        ELSE S1

\* which arm of the temperature checks is taken
evaluate_branch(S, cur_temp) ==
    IF cur_temp < MIN_TEMPERATURE THEN "min"
    ELSE IF cur_temp > MAX_TEMPERATURE THEN "max"
    ELSE IF S.override_on THEN "override"
    ELSE IF S.thermo_on THEN "rules"
    ELSE "off"

\* variant: below the minimum the relay is switched only when it is already on
temperature_checks_MinInverted(S, cur_temp) ==
    IF cur_temp < MIN_TEMPERATURE
    THEN IF S.relay_on
         THEN [set_relay_status(S, RELAY_ON) EXCEPT !.update_db = TRUE]
         ELSE S
    ELSE IF cur_temp > MAX_TEMPERATURE
    THEN IF S.relay_on
         THEN [set_relay_status(S, RELAY_OFF) EXCEPT !.update_db = TRUE]
         ELSE S
    ELSE IF S.override_on
    THEN IF S.relay_on /\ (cur_temp > (S.setpoint + TEMPERATURE_BUFFER))
         THEN [set_relay_status(S, RELAY_OFF) EXCEPT !.update_db = TRUE]
         ELSE IF ~S.relay_on /\ (cur_temp < (S.setpoint - TEMPERATURE_BUFFER))
         THEN [set_relay_status(S, RELAY_ON) EXCEPT !.update_db = TRUE]
         ELSE S
    ELSE S

\* variant: the two bands of the override comparison overlap
temperature_checks_Overlap(S, cur_temp) ==
    IF cur_temp < MIN_TEMPERATURE
    THEN IF ~S.relay_on
         THEN [set_relay_status(S, RELAY_ON) EXCEPT !.update_db = TRUE]
         ELSE S
    ELSE IF cur_temp > MAX_TEMPERATURE
    THEN IF S.relay_on
         THEN [set_relay_status(S, RELAY_OFF) EXCEPT !.update_db = TRUE]
         ELSE S
    ELSE IF S.override_on
    THEN IF S.relay_on /\ (cur_temp >= (S.setpoint - TEMPERATURE_BUFFER))
         THEN [set_relay_status(S, RELAY_OFF) EXCEPT !.update_db = TRUE]
         ELSE IF ~S.relay_on /\ (cur_temp <= (S.setpoint + TEMPERATURE_BUFFER))
         THEN [set_relay_status(S, RELAY_ON) EXCEPT !.update_db = TRUE]
         ELSE S
    ELSE S

\* the arms that need no rule: limits, override, thermostat off
temperature_checks(S, cur_temp) ==
    IF cur_temp < MIN_TEMPERATURE
    THEN IF ~S.relay_on
         THEN [set_relay_status(S, RELAY_ON) EXCEPT !.update_db = TRUE]
         ELSE S
    ELSE IF cur_temp > MAX_TEMPERATURE
    THEN IF S.relay_on
         THEN [set_relay_status(S, RELAY_OFF) EXCEPT !.update_db = TRUE]
         ELSE S
    ELSE IF S.override_on
    THEN IF S.relay_on /\ (cur_temp > (S.setpoint + TEMPERATURE_BUFFER))
         THEN [set_relay_status(S, RELAY_OFF) EXCEPT !.update_db = TRUE]
         ELSE IF ~S.relay_on /\ (cur_temp < (S.setpoint - TEMPERATURE_BUFFER))
         THEN [set_relay_status(S, RELAY_ON) EXCEPT !.update_db = TRUE]
         ELSE S
    ELSE S

\* variant: the comparisons with the rule include the edges of the band
rule_found_Edges(S, cur_rule, cur_temp) ==
    LET S1 == IF S.relay_on /\ (cur_temp >= (cur_rule.temperature + TEMPERATURE_BUFFER))
              THEN [set_relay_status(S, RELAY_OFF) EXCEPT !.update_db = TRUE]
              ELSE IF ~S.relay_on /\ (cur_temp <= (cur_rule.temperature - TEMPERATURE_BUFFER))
              THEN [set_relay_status(S, RELAY_ON) EXCEPT !.update_db = TRUE]
              ELSE S
    IN  [S1 EXCEPT !.setpoint = cur_rule.temperature]

\* the body of the rule loop for the rule that applies
rule_found(S, cur_rule, cur_temp) ==
    LET S1 == IF S.relay_on /\ (cur_temp > (cur_rule.temperature + TEMPERATURE_BUFFER))
              THEN [set_relay_status(S, RELAY_OFF) EXCEPT !.update_db = TRUE]
              ELSE IF ~S.relay_on /\ (cur_temp < (cur_rule.temperature - TEMPERATURE_BUFFER))
              THEN [set_relay_status(S, RELAY_ON) EXCEPT !.update_db = TRUE]
              ELSE S
    IN  [S1 EXCEPT !.setpoint = cur_rule.temperature]

\* variant: every evaluation uploads
evaluate_finish_Always(S, cur_temp, hread) ==
    LET S1 == update_database(S, cur_temp, cur_temp, hread)
        new_str == Fmt1(S1.setpoint)
    IN  IF S1.setpoint_str # new_str
        THEN [ehandler(S1, DisplayStatus(SETPOINT_TEMP, new_str))
                 EXCEPT !.setpoint_str = new_str]
        ELSE S1

\* lines 454-464: database upload and setpoint text.  The sensor cannot read
\* ABSOLUTE_ZERO, so the upload never reads the temperature again.
evaluate_finish(S, cur_temp, hread) ==
    LET S1 == IF S.update_db THEN update_database(S, cur_temp, cur_temp, hread) ELSE S
        new_str == Fmt1(S1.setpoint)
    IN  IF S1.setpoint_str # new_str
        THEN [ehandler(S1, DisplayStatus(SETPOINT_TEMP, new_str))
                 EXCEPT !.setpoint_str = new_str]
        ELSE S1

\* variant: the last rule of the table that applies
first_rule_Last(table, cur_day, cur_hour) ==
    IF \E i \in 1..Len(table) : rule_applies(table[i], cur_day, cur_hour)
    THEN CHOOSE i \in 1..Len(table) :
             /\ rule_applies(table[i], cur_day, cur_hour)
             /\ \A j \in (i + 1)..Len(table) : ~rule_applies(table[j], cur_day, cur_hour)
    ELSE 0

\* index of the first rule of the table that applies, 0 when none does
first_rule(table, cur_day, cur_hour) ==
    IF \E i \in 1..Len(table) : rule_applies(table[i], cur_day, cur_hour)
    THEN CHOOSE i \in 1..Len(table) :
             /\ rule_applies(table[i], cur_day, cur_hour)
             /\ \A j \in 1..(i - 1) : ~rule_applies(table[j], cur_day, cur_hour)
    ELSE 0

\* ---------------------------------------------------------------------------
\* Bookkeeping of the model: last describes the step just taken (for a step of
\* the engine: the packet handled, the evaluation made and the messages handed
\* to the event handler), prev_eval the evaluation of the most recent completed
\* operation of the engine.
\* ---------------------------------------------------------------------------
NoPkt == DataPacket("None", "None", Command(0, None, None))
NoResp == DataPacket("None", "None", Text("none"))

\* an evaluation: its outcome, the reading, the arm taken, the value compared
\* with, the clock, the days walked back, and whether the relay was switched
EvalInfo(ev, t, force, br, target, cur_day, cur_hour, steps, switched) ==
    [eval |-> ev, t |-> t, force |-> force, branch |-> br, target |-> target,
     day |-> cur_day, hour |-> cur_hour, steps |-> steps, switched |-> switched]
NoEval == EvalInfo("none", None, FALSE, "none", None, 0, 0, 0, FALSE)
Brief(ev) == [eval |-> ev.eval, t |-> ev.t, branch |-> ev.branch, target |-> ev.target,
              switched |-> ev.switched]

\* whether an evaluation repeats the one of the operation before it
Again(ev) ==
    IF /\ ev.eval = "ok"
       /\ prev_eval.eval = "ok"
       /\ prev_eval.t = ev.t
       /\ prev_eval.branch = ev.branch
       /\ prev_eval.target = ev.target
    THEN IF prev_eval.switched THEN "after_switch" ELSE "same"
    ELSE "no"

Step(act, done, pkt, ev, msgs, again) ==
    [act |-> act, done |-> done, pkt |-> pkt, ev |-> ev, msgs |-> msgs, again |-> again]

\* a step that is no operation of the engine
NoStep == Step("none", FALSE, NoPkt, NoEval, <<>>, "no")

\* the members of the object and the queue after an operation
Commit(S, q) ==
    /\ thermo_on' = S.thermo_on
    /\ relay_on' = S.relay_on
    /\ override_on' = S.override_on
    /\ override_temp' = S.override_temp
    /\ setpoint' = S.setpoint
    /\ temperature' = S.temperature
    /\ indoor_temp_str' = S.indoor_temp_str
    /\ setpoint_str' = S.setpoint_str
    /\ gpio_relay' = S.gpio_relay
    /\ message_list' = q \o S.out

\* process_command lines 217-220: the response, when there is one, is handed
\* to the event handler last
\* variant: the response is enqueued ahead of the messages of the operation
Complete_ReplyFirst(S, act, pkt, resp, q, ev) ==
    LET S1 == IF resp # NoResp
              THEN [S EXCEPT !.out = << LANTxMessage(resp) >> \o S.out]
              ELSE S
    IN  /\ Commit(S1, q)
        /\ last' = Step(act, TRUE, pkt, ev, S1.out, Again(ev))
        /\ prev_eval' = Brief(ev)

Complete(S, act, pkt, resp, q, ev) ==
    LET S1 == IF resp # NoResp THEN ehandler(S, LANTxMessage(resp)) ELSE S
    IN  /\ Commit(S1, q)
        /\ last' = Step(act, TRUE, pkt, ev, S1.out, Again(ev))
        /\ prev_eval' = Brief(ev)

\* read_humidity is called only when the database is updated
HumReads(S) == IF S.update_db THEN Humidities \cup {SensorError} ELSE {SensorError}

\* the rule loop of _evaluate_programming, lines 420-450: every pass scans the
\* table in order; without a rule that applies the day moves back and the hour
\* grows.  The loop is followed for MaxScanSteps steps back.
RECURSIVE rule_scan(_, _, _, _)
rule_scan(table, cur_day, cur_hour, steps) ==
    LET i == first_rule(table, cur_day, cur_hour)
    IN  IF i # 0
        THEN [found |-> TRUE, rule |-> i, day |-> cur_day, hour |-> cur_hour,
              steps |-> steps]
        ELSE IF steps >= MaxScanSteps
        THEN [found |-> FALSE, rule |-> 0, day |-> cur_day, hour |-> cur_hour,
              steps |-> steps]
        ELSE rule_scan(table,
                       IF cur_day = RULE_DAYS["Monday"]
                       THEN RULE_DAYS["Sunday"] ELSE cur_day - 1,
                       cur_hour + 2400, steps + 1)

\* _evaluate_programming returns to its caller: the control loop goes on with
\* its wait, process_command goes on in the main thread
Return(thread) ==
    /\ thermo_pc' = IF thread = "thermo" THEN "loop" ELSE thermo_pc
    /\ UNCHANGED main_pc

\* _evaluate_programming(ForceUpdate) run from S by a thread: tread is what
\* read_temperature returns.  A rule loop that has not ended after MaxScanSteps
\* steps back leaves the calling thread in the loop.
Evaluate(S, tread, ForceUpdate, thread, act, pkt, resp, q) ==
    IF tread = SensorError
    THEN /\ Complete(evaluate_failed(S), act, pkt, resp, q,
                     EvalInfo("fail", None, ForceUpdate, "none", None, 0, 0, 0, FALSE))
         /\ Return(thread)
    ELSE LET S1 == evaluate_read(S, tread, ForceUpdate)
             br == evaluate_branch(S1, tread)
         IN  IF br = "rules"
             THEN \E now \in Clock :
                    LET cur_day == now.day
                        cur_hour == now.hour
                        r == rule_scan(rules, cur_day, cur_hour, 0)
                    IN  IF r.found
                        THEN LET S2 == rule_found(S1, rules[r.rule], tread)
                             IN  /\ \E hread \in HumReads(S2) :
                                      Complete(evaluate_finish(S2, tread, hread), act, pkt,
                                               resp, q,
                                               EvalInfo("ok", tread, ForceUpdate, br,
                                                        rules[r.rule].temperature,
                                                        cur_day, cur_hour, r.steps,
                                                        S2.relay_on # S.relay_on))
                                 /\ Return(thread)
                        ELSE /\ Commit(S1, q)
                             /\ last' = Step(act, FALSE, pkt,
                                             EvalInfo("scanning", tread, ForceUpdate, br,
                                                      None, cur_day, cur_hour, r.steps,
                                                      FALSE),
                                             S1.out, "no")
                             /\ thermo_pc' = IF thread = "thermo" THEN "scanning"
                                             ELSE thermo_pc
                             /\ main_pc' = IF thread = "main" THEN "scanning" ELSE main_pc
                             /\ UNCHANGED prev_eval
             ELSE LET S2 == temperature_checks(S1, tread)
                  IN  /\ \E hread \in HumReads(S2) :
                           Complete(evaluate_finish(S2, tread, hread), act, pkt, resp, q,
                                    EvalInfo("ok", tread, ForceUpdate, br,
                                             IF br = "override" THEN S1.setpoint ELSE None,
                                             0, 0, 0, S2.relay_on # S.relay_on))
                      /\ Return(thread)

\* ---------------------------------------------------------------------------
\* Thermostat thread (Thermostat.run)
\* ---------------------------------------------------------------------------
Init ==
    /\ thermo_on = FALSE
    /\ relay_on = TRUE
    /\ override_on = FALSE
    /\ override_temp = 1500
    /\ setpoint = 0
    /\ temperature = None
    /\ indoor_temp_str = None
    /\ setpoint_str = None
    /\ gpio_relay = None
    /\ rules \in RuleTables
    /\ non_printing_loops = data_cycles
    /\ thermo_pc = "start"
    /\ message_list = <<>>
    /\ kill_event = FALSE
    /\ kill_timer = FALSE
    /\ main_pc = "loop"
    /\ lan_pc = "run"
    /\ last = NoStep
    /\ prev_eval = Brief(NoEval)
    /\ local_db = <<>>
    /\ max_id = 0
    /\ undeleted = {}
    /\ xbee_pc = "run"

\* variant: the relay is set before the power
ThermoStart_RelayFirst ==
    /\ thermo_pc = "start"
    /\ LET S1 == set_thermo_status(set_relay_status(Self, RELAY_OFF), THERMOSTAT_ON)
           S2 == ehandler(S1, DisplayStatus(POWER_LED, LED_ON))
           S3 == ehandler(S2, DisplayStatus(OVER_BTN, BTN_OFF))
           S4 == ehandler(S3, DisplayStatus(OVER_SCALE, S3.override_temp))
       IN  Complete(S4, "start", NoPkt, NoResp, message_list, NoEval)
    /\ thermo_pc' = "loop"
    /\ non_printing_loops' = data_cycles
    /\ UNCHANGED << rules, kill_event, kill_timer, main_pc, lan_pc >>
    /\ UNCHANGED << storage, xbee_pc >>

\* run, lines 146-155
ThermoStart ==
    /\ thermo_pc = "start"
    /\ LET S1 == set_relay_status(set_thermo_status(Self, THERMOSTAT_ON), RELAY_OFF)
           S2 == ehandler(S1, DisplayStatus(POWER_LED, LED_ON))
           S3 == ehandler(S2, DisplayStatus(OVER_BTN, BTN_OFF))
           S4 == ehandler(S3, DisplayStatus(OVER_SCALE, S3.override_temp))
       IN  Complete(S4, "start", NoPkt, NoResp, message_list, NoEval)
    /\ thermo_pc' = "loop"
    /\ non_printing_loops' = data_cycles
    /\ UNCHANGED << rules, kill_event, kill_timer, main_pc, lan_pc >>
    /\ UNCHANGED << storage, xbee_pc >>

\* one pass of the control loop, lines 156-168
Tick ==
    /\ thermo_pc = "loop"
    /\ ~kill_event
    /\ Len(message_list) < MaxQueue
    /\ LET force_print == (non_printing_loops = data_cycles)
       IN  /\ non_printing_loops' = IF force_print THEN 1 ELSE non_printing_loops + 1
           /\ \E tread \in Temps \cup {SensorError} :
                Evaluate(Self, tread, force_print, "thermo", "tick", NoPkt, NoResp,
                         message_list)
    /\ UNCHANGED << rules, kill_event, kill_timer, lan_pc >>
    /\ UNCHANGED << storage, xbee_pc >>

\* the same pass in two steps.  First the loop counts the pass and calls
\* _evaluate_programming (lines 158-165): the thread is now in the method, where
\* the sensor is read over the bus.
EvalEnter ==
    /\ thermo_pc = "loop"
    /\ ~kill_event
    /\ thermo_pc' = "evaluate"
    /\ non_printing_loops' = IF non_printing_loops = data_cycles THEN 1
                              ELSE non_printing_loops + 1
    /\ last' = NoStep
    /\ UNCHANGED << engine, rules, message_list, kill_event, kill_timer, main_pc,
                    lan_pc, prev_eval >>
    /\ UNCHANGED << storage, xbee_pc >>

\* then the method takes its decision, writes the members and returns; the
\* pass is forced when the counter has just been set back to 1
EvalReturn ==
    /\ thermo_pc = "evaluate"
    /\ Len(message_list) < MaxQueue
    /\ \E tread \in Temps \cup {SensorError} :
         Evaluate(Self, tread, non_printing_loops = 1, "thermo", "tick", NoPkt, NoResp,
                  message_list)
    /\ UNCHANGED << rules, non_printing_loops, kill_event, kill_timer, lan_pc >>
    /\ UNCHANGED << storage, xbee_pc >>

\* the loop ends once the kill event is set, lines 156, 170-173
ThermoExit ==
    /\ thermo_pc = "loop"
    /\ kill_event
    /\ thermo_pc' = "done"
    /\ last' = NoStep
    /\ UNCHANGED << engine, rules, non_printing_loops, message_list, kill_event,
                    kill_timer, main_pc, lan_pc, prev_eval >>
    /\ UNCHANGED << storage, xbee_pc >>

\* ---------------------------------------------------------------------------
\* Command handlers of the engine (Thermostat.process_command)
\* ---------------------------------------------------------------------------
\* truth value of a float or None in a Python condition
Truthy(x) == (x # None) /\ (x # 0)

\* _update_thermo_status, subcommand other than STATUS_ON
thermo_status_off(S, tread, hread) ==
    update_database(set_relay_status(set_thermo_status(S, THERMOSTAT_OFF), RELAY_ON),
                    ABSOLUTE_ZERO, tread, hread)

\* _force_shutdown
force_shutdown(S, tread, hread) ==
    ehandler(update_database(set_relay_status(set_thermo_status(S, THERMOSTAT_OFF),
                                              RELAY_ON),
                             ABSOLUTE_ZERO, tread, hread),
             DisplayStatus(POWER_LED, LED_OFF))

\* _update_override with the thermostat on, up to the evaluation
update_override(S, dpack) ==
    LET S1 == IF dpack.packet.subcommand = STATUS_ON
              THEN [S EXCEPT !.override_on = TRUE,
                             !.override_temp = dpack.packet.data,
                             !.setpoint = dpack.packet.data]
              ELSE IF Truthy(dpack.packet.data)
              THEN [S EXCEPT !.override_on = FALSE,
                             !.override_temp = dpack.packet.data]
              ELSE [S EXCEPT !.override_on = FALSE]
        button_status == IF dpack.packet.subcommand = STATUS_ON THEN BTN_ON ELSE BTN_OFF
    IN  IF dpack.host # "DISPLAY"
        THEN ehandler(ehandler(S1, DisplayStatus(OVER_BTN, button_status)),
                      DisplayStatus(OVER_SCALE, S1.override_temp))
        ELSE S1

\* _return_status: the response string, field by field
return_status(S) ==
    [text |-> "ST", thermo_on |-> S.thermo_on, relay_on |-> S.relay_on,
     temperature |-> S.temperature, setpoint |-> S.setpoint,
     override_on |-> S.override_on]

\* variant: the override is handled whether the power is on or off
process_command_AnyPower(Packet, q) ==
    LET cmd == Packet.packet
        send_response == Packet.host # "DISPLAY"
        Resp(p) == IF send_response THEN DataPacket(Packet.host, Packet.port, p)
                   ELSE NoResp
    IN  CASE cmd.command = CMD_THERMO_POWER ->
               /\ IF cmd.subcommand = STATUS_ON
                  THEN \E tread \in Temps \cup {SensorError} :
                         Evaluate(set_thermo_status(Self, THERMOSTAT_ON), tread, TRUE,
                                  "main", "power", Packet, Resp(Text("TS:ACK")), q)
                  ELSE /\ \E tread \in Temps \cup {SensorError},
                             hread \in Humidities \cup {SensorError} :
                            Complete(thermo_status_off(Self, tread, hread), "power",
                                     Packet, Resp(Text("TS:ACK")), q, NoEval)
                       /\ UNCHANGED << thermo_pc, main_pc >>
               /\ UNCHANGED kill_timer
          [] cmd.command = CMD_OVERRIDE ->
               /\ \E tread \in Temps \cup {SensorError} :
                    Evaluate(update_override(Self, Packet), tread, TRUE,
                             "main", "override", Packet, Resp(Text("PO:ACK")), q)
               /\ UNCHANGED kill_timer
          [] cmd.command = CMD_TIME_REQUEST ->
               /\ Complete(Self, "clock", Packet,
                           Resp(Text(IF cmd.subcommand = STATUS_GET
                                     THEN "CR:GET" ELSE "CR:NACK")),
                           q, NoEval)
               /\ UNCHANGED << kill_timer, main_pc, thermo_pc >>
          [] cmd.command = CMD_STATUS ->
               IF temperature = None
               THEN \* self._temperature does not exist yet: AttributeError
                    /\ Complete(Self, "status", Packet, NoResp, q, NoEval)
                    /\ main_pc' = "crashed"
                    /\ UNCHANGED << kill_timer, thermo_pc >>
               ELSE /\ Complete(Self, "status", Packet, Resp(return_status(Self)), q, NoEval)
                    /\ UNCHANGED << kill_timer, main_pc, thermo_pc >>
          [] cmd.command = CMD_SHUTDOWN ->
               /\ \E tread \in Temps \cup {SensorError},
                     hread \in Humidities \cup {SensorError} :
                    Complete(force_shutdown(Self, tread, hread), "shutdown", Packet,
                             Resp(Text("XX:ACK")), q, NoEval)
               /\ kill_timer' = TRUE
               /\ UNCHANGED << main_pc, thermo_pc >>
          [] OTHER ->
               /\ Complete(Self, "unknown", Packet, NoResp, q, NoEval)
               /\ UNCHANGED << kill_timer, main_pc, thermo_pc >>

\* process_command for one packet taken from the queue, q the rest of the queue
process_command(Packet, q) ==
    LET cmd == Packet.packet
        send_response == Packet.host # "DISPLAY"
        Resp(p) == IF send_response THEN DataPacket(Packet.host, Packet.port, p)
                   ELSE NoResp
    IN  CASE cmd.command = CMD_THERMO_POWER ->
               /\ IF cmd.subcommand = STATUS_ON
                  THEN \E tread \in Temps \cup {SensorError} :
                         Evaluate(set_thermo_status(Self, THERMOSTAT_ON), tread, TRUE,
                                  "main", "power", Packet, Resp(Text("TS:ACK")), q)
                  ELSE /\ \E tread \in Temps \cup {SensorError},
                             hread \in Humidities \cup {SensorError} :
                            Complete(thermo_status_off(Self, tread, hread), "power",
                                     Packet, Resp(Text("TS:ACK")), q, NoEval)
                       /\ UNCHANGED << thermo_pc, main_pc >>
               /\ UNCHANGED kill_timer
          [] cmd.command = CMD_OVERRIDE ->
               /\ IF thermo_on
                  THEN \E tread \in Temps \cup {SensorError} :
                         Evaluate(update_override(Self, Packet), tread, TRUE,
                                  "main", "override", Packet, Resp(Text("PO:ACK")), q)
                  ELSE /\ Complete(Self, "override", Packet, Resp(Text("PO:NACK")), q,
                                   NoEval)
                       /\ UNCHANGED << thermo_pc, main_pc >>
               /\ UNCHANGED kill_timer
          [] cmd.command = CMD_TIME_REQUEST ->
               /\ Complete(Self, "clock", Packet,
                           Resp(Text(IF cmd.subcommand = STATUS_GET
                                     THEN "CR:GET" ELSE "CR:NACK")),
                           q, NoEval)
               /\ UNCHANGED << kill_timer, main_pc, thermo_pc >>
          [] cmd.command = CMD_STATUS ->
               IF temperature = None
               THEN \* self._temperature does not exist yet: AttributeError
                    /\ Complete(Self, "status", Packet, NoResp, q, NoEval)
                    /\ main_pc' = "crashed"
                    /\ UNCHANGED << kill_timer, thermo_pc >>
               ELSE /\ Complete(Self, "status", Packet, Resp(return_status(Self)), q, NoEval)
                    /\ UNCHANGED << kill_timer, main_pc, thermo_pc >>
          [] cmd.command = CMD_SHUTDOWN ->
               /\ \E tread \in Temps \cup {SensorError},
                     hread \in Humidities \cup {SensorError} :
                    Complete(force_shutdown(Self, tread, hread), "shutdown", Packet,
                             Resp(Text("XX:ACK")), q, NoEval)
               /\ kill_timer' = TRUE
               /\ UNCHANGED << main_pc, thermo_pc >>
          [] OTHER ->
               /\ Complete(Self, "unknown", Packet, NoResp, q, NoEval)
               /\ UNCHANGED << kill_timer, main_pc, thermo_pc >>

\* the timer started by the shutdown command expires
KillTimer ==
    /\ kill_timer
    /\ kill_timer' = FALSE
    /\ kill_event' = TRUE
    /\ last' = NoStep
    /\ UNCHANGED << engine, rules, non_printing_loops, thermo_pc, message_list,
                    main_pc, lan_pc, prev_eval >>
    /\ UNCHANGED << storage, xbee_pc >>

\* ---------------------------------------------------------------------------
\* LAN thread (lan_network.py)
\* ---------------------------------------------------------------------------
Hosts == {"h1"}

\* float(s) for the argument strings of the frames; ValueError otherwise
ValueError == -77777
\* variant: the fraction of the number is dropped
float_Trunc(s) == CASE s = "19.3" -> 1900
                    [] s = "21.5" -> 2100
                    [] s = "0.0" -> 0
                    [] OTHER -> ValueError

float(s) == CASE s = "19.3" -> 1930
              [] s = "21.5" -> 2150
              [] s = "0.0" -> 0
              [] OTHER -> ValueError

\* received frames, split at ':'
Frames == { <<"1", "TS", "ON">>, <<"1", "TS", "OFF">>,
            <<"1", "PO", "ON", "19.3">>,
            <<"1", "PO", "OFF">>, <<"1", "PO", "OFF", "19.3">>,
            <<"1", "PO", "OFF", "0.0">> }
ShutdownFrames == { <<"1", "XX">>, <<"1", "TS", "ON">>, <<"1", "PO", "ON", "19.3">> }

\* frames of the protocol table, and frames that are not in it: no ':' at all,
\* an empty or unknown operation, TR, a missing argument, an unrecognized
\* subcommand, an argument that is no number
WellFormed == { <<"7", "TS", "ON">>, <<"7", "TS", "OFF">>,
                <<"7", "PO", "ON", "21.5">>,
                <<"7", "PO", "OFF">>, <<"7", "PO", "OFF", "19.3">>,
                <<"7", "CR", "GET">>, <<"7", "ST">>, <<"7", "XX">> }
Malformed == { <<"7">>, <<"7", "">>, <<"7", "ZZ">>, <<"7", "TR">>,
               <<"7", "TS">>, <<"7", "PO", "ON">>, <<"7", "CR">>,
               <<"7", "PO", "MAYBE">>, <<"7", "PO", "ON", "abc">> }
AllFrames == WellFormed \cup Malformed

\* _handle_command on the tokens of a frame: the message handed to the event
\* handler, or raised when an exception leaves the method
handle_command(host_address, tokens) ==
    LET n == Len(tokens)
        Raise == [raised |-> TRUE, msg |-> LANTxMessage(NoResp)]
        Pass(cmd) == [raised |-> FALSE,
                      msg |-> ThermostatTxMessage(DataPacket(host_address, tokens[1], cmd))]
        Error == [raised |-> FALSE,
                  msg |-> LANTxMessage(DataPacket(host_address, tokens[1],
                              Text(IF tokens[2] # "" THEN tokens[2] \o ":NACK" ELSE "NACK")))]
    IN  IF n < 2 THEN Raise
        ELSE IF tokens[2] = "TS"
        THEN IF n < 3 THEN Raise
             ELSE IF tokens[3] = "ON"
             THEN Pass(Command(CMD_THERMO_POWER, STATUS_ON, None))
             ELSE IF tokens[3] = "OFF"
             THEN Pass(Command(CMD_THERMO_POWER, STATUS_OFF, None))
             ELSE Error
        ELSE IF tokens[2] = "PO"
        THEN IF n < 3 THEN Raise
             ELSE IF tokens[3] = "ON"
             THEN IF n < 4 \/ float(tokens[4]) = ValueError THEN Raise
                  ELSE Pass(Command(CMD_OVERRIDE, STATUS_ON, float(tokens[4])))
             ELSE IF tokens[3] = "OFF"
             THEN IF n >= 4
                  THEN IF float(tokens[4]) = ValueError THEN Raise
                       ELSE Pass(Command(CMD_OVERRIDE, STATUS_OFF, float(tokens[4])))
                  ELSE Pass(Command(CMD_OVERRIDE, STATUS_OFF, None))
             ELSE Error
        ELSE IF tokens[2] = "TR" THEN Error
        ELSE IF tokens[2] = "CR"
        THEN IF n < 3 THEN Raise
             ELSE IF tokens[3] = "GET"
             THEN Pass(Command(CMD_TIME_REQUEST, STATUS_GET, None))
             ELSE Error
        ELSE IF tokens[2] = "ST" THEN Pass(Command(CMD_STATUS, None, None))
        ELSE IF tokens[2] = "XX" THEN Pass(Command(CMD_SHUTDOWN, None, None))
        ELSE Error

\* run, lines 90-110: a frame is read from a client socket and handled; an
\* exception other than socket.error ends the thread
\* with record, the frame and what was handed over are kept in last
LanStep(host_address, tokens, r) ==
    [act |-> "lan", done |-> ~r.raised, pkt |-> NoPkt, ev |-> NoEval,
     msgs |-> IF r.raised THEN <<>> ELSE << r.msg >>, again |-> "no",
     host |-> host_address, frame |-> tokens]

LanRun(frames, record) ==
    /\ lan_pc = "run"
    /\ ~kill_event
    /\ Len(message_list) < MaxQueue
    /\ \E host \in Hosts, tokens \in frames :
         LET r == handle_command(host, tokens)
         IN  /\ IF r.raised
                THEN /\ lan_pc' = "crashed"
                     /\ UNCHANGED message_list
                ELSE /\ message_list' = Append(message_list, r.msg)
                     /\ UNCHANGED lan_pc
             /\ last' = IF record THEN LanStep(host, tokens, r) ELSE NoStep
    /\ UNCHANGED << engine, rules, non_printing_loops, thermo_pc, kill_event,
                    kill_timer, main_pc, prev_eval >>
    /\ UNCHANGED << storage, xbee_pc >>

LanReceive == LanRun(Frames, FALSE)

LanShutdown == LanRun(ShutdownFrames, FALSE)

LanServe == LanRun(AllFrames, TRUE)

LanExit ==
    /\ lan_pc = "run"
    /\ kill_event
    /\ lan_pc' = "done"
    /\ last' = NoStep
    /\ UNCHANGED << engine, rules, non_printing_loops, thermo_pc, message_list,
                    kill_event, kill_timer, main_pc, prev_eval >>
    /\ UNCHANGED << storage, xbee_pc >>

\* ---------------------------------------------------------------------------
\* Dispatcher (run_thermo.py main loop and dispatch_message)
\* ---------------------------------------------------------------------------
\* THERMO_TX_MESSAGE: the command is handled by the engine.  The thermostat thread is
\* started before the LAN thread and before the dispatch loop (lines 131-152), and
\* has finished its start-up when the first command is dispatched.
DispatchThermo ==
    /\ main_pc = "loop"
    /\ thermo_pc # "start"
    /\ ~kill_event
    /\ message_list # <<>>
    /\ Head(message_list).id = THERMO_TX_MESSAGE
    /\ process_command(Head(message_list).data, Tail(message_list))
    /\ UNCHANGED << rules, non_printing_loops, kill_event, lan_pc >>
    /\ UNCHANGED << storage, xbee_pc >>

\* LAN_TX_MESSAGE: a database request that send_http_request delivers, or a
\* reply sent over a socket whether or not the send succeeds
DispatchLan ==
    /\ main_pc = "loop"
    /\ ~kill_event
    /\ message_list # <<>>
    /\ Head(message_list).id = LAN_TX_MESSAGE
    /\ message_list' = Tail(message_list)
    /\ last' = NoStep
    /\ UNCHANGED << engine, rules, non_printing_loops, thermo_pc, kill_event,
                    kill_timer, main_pc, lan_pc, prev_eval >>
    /\ UNCHANGED << storage, xbee_pc >>

\* variant: the youngest message is taken from the queue
DispatchDisplay_Last ==
    /\ main_pc = "loop"
    /\ ~kill_event
    /\ message_list # <<>>
    /\ message_list[Len(message_list)].id = DISPLAY_TX_MESSAGE
    /\ message_list' = SubSeq(message_list, 1, Len(message_list) - 1)
    /\ last' = NoStep
    /\ UNCHANGED << engine, rules, non_printing_loops, thermo_pc, kill_event,
                    kill_timer, main_pc, lan_pc, prev_eval >>
    /\ UNCHANGED << storage, xbee_pc >>

\* DISPLAY_TX_MESSAGE: handed to the display
DispatchDisplay ==
    /\ main_pc = "loop"
    /\ ~kill_event
    /\ message_list # <<>>
    /\ Head(message_list).id = DISPLAY_TX_MESSAGE
    /\ message_list' = Tail(message_list)
    /\ last' = NoStep
    /\ UNCHANGED << engine, rules, non_printing_loops, thermo_pc, kill_event,
                    kill_timer, main_pc, lan_pc, prev_eval >>
    /\ UNCHANGED << storage, xbee_pc >>

\* the main loop ends once the shutdown event is set
MainExit ==
    /\ main_pc = "loop"
    /\ kill_event
    /\ main_pc' = "exited"
    /\ last' = NoStep
    /\ UNCHANGED << engine, rules, non_printing_loops, thermo_pc, message_list,
                    kill_event, kill_timer, lan_pc, prev_eval >>
    /\ UNCHANGED << storage, xbee_pc >>

Next ==
    \/ ThermoStart
    \/ Tick
    \/ LanReceive
    \/ DispatchThermo
    \/ DispatchLan
    \/ DispatchDisplay

Spec == Init /\ [][Next]_vars

\* the program with a client that asks for the shutdown
NextShutdown ==
    \/ ThermoStart
    \/ Tick
    \/ LanShutdown
    \/ DispatchThermo
    \/ DispatchLan
    \/ DispatchDisplay
    \/ KillTimer
    \/ ThermoExit
    \/ LanExit
    \/ MainExit

SpecShutdown == Init /\ [][NextShutdown]_vars

\* the radio thread leaves its loop once the kill event is set, closes the
\* connection and ends, xbee_network.py lines 96-101
XBeeExit ==
    /\ xbee_pc = "run"
    /\ kill_event
    /\ xbee_pc' = "done"
    /\ last' = NoStep
    /\ UNCHANGED << engine, rules, non_printing_loops, thermo_pc, message_list,
                    kill_event, kill_timer, main_pc, lan_pc, prev_eval, storage >>

\* the program up to the end of its threads
NextStop ==
    \/ NextShutdown
    \/ XBeeExit

SpecStop == Init /\ [][NextStop]_vars

\* every thread keeps being scheduled and the timer of the shutdown expires;
\* only the LAN client is free to stay silent
SpecStopFair ==
    /\ SpecStop
    /\ WF_vars(ThermoStart)
    /\ WF_vars(Tick)
    /\ WF_vars(DispatchThermo)
    /\ WF_vars(DispatchLan)
    /\ WF_vars(DispatchDisplay)
    /\ WF_vars(KillTimer)
    /\ WF_vars(ThermoExit)
    /\ WF_vars(LanExit)
    /\ WF_vars(MainExit)
    /\ WF_vars(XBeeExit)

\* ---------------------------------------------------------------------------
\* Local store (local_stores.py) and its use by the main thread (run_thermo.py)
\* ---------------------------------------------------------------------------
MaxStore == 3
MaxId == 4

\* a row of the table transmissions
Row(id, message) == [id |-> id, message |-> message]

\* fetchone() when the table has no row
NoRow == Row(0, Text("None"))

\* the index of the row with the largest id and of the row with the smallest
Youngest(db) == CHOOSE i \in 1..Len(db) : \A j \in 1..Len(db) : db[j].id <= db[i].id
Oldest(db) == CHOOSE i \in 1..Len(db) : \A j \in 1..Len(db) : db[i].id <= db[j].id

\* the table without its row i
Delete(db, i) == SubSeq(db, 1, i - 1) \o SubSeq(db, i + 1, Len(db))

\* variant: the smallest id that no row of the table has
RowId_Free(db) == CHOOSE i \in 1..(Len(db) + 1) :
                     /\ \A j \in 1..Len(db) : db[j].id # i
                     /\ \A k \in 1..(i - 1) : \E j \in 1..Len(db) : db[j].id = k

\* variant: the id is one more than the number of rows
RowId_Count(db) == Len(db) + 1

\* the id SQLite gives to INSERT ... VALUES(NULL, ?) in a table created with
\* 'id INTEGER PRIMARY KEY' and no AUTOINCREMENT: one more than the largest id
\* in the table, 1 when the table is empty.  The table is kept in the order of
\* the inserts.
RowId(db) == IF db = <<>> THEN 1 ELSE db[Youngest(db)].id + 1

\* push: ok is whether INSERT and commit go through; a DatabaseError is logged and
\* leaves the table as it is
push(db, Requests, ok) ==
    IF ok THEN Append(db, Row(RowId(db), Requests)) ELSE db

\* what the database does in a pop: no error, an error in the SELECT, an error
\* in the DELETE or its commit with the row still in the table, or with the
\* row gone once a later commit goes through
PopOk == {"ok"}
PopFaults == {"ok", "select_error", "delete_error_kept", "delete_error_gone"}

\* variant: the youngest row is selected
pop_Newest(db, outcome) ==
    IF outcome = "select_error" \/ db = <<>>
    THEN [pop_item |-> NoRow, db |-> db, failed |-> {}]
    ELSE IF outcome = "ok"
    THEN [pop_item |-> db[Youngest(db)], db |-> Delete(db, Youngest(db)), failed |-> {}]
    ELSE [pop_item |-> NoRow,
          db |-> IF outcome = "delete_error_kept" THEN db ELSE Delete(db, Youngest(db)),
          failed |-> {db[Youngest(db)].id}]

\* pop: SELECT ... ORDER BY id LIMIT 1 and DELETE of that id.  The result is
\* the row returned (NoRow for None), the table afterwards, and the id of the
\* row that was read but whose deletion failed
pop(db, outcome) ==
    IF outcome = "select_error" \/ db = <<>>
    THEN [pop_item |-> NoRow, db |-> db, failed |-> {}]
    ELSE IF outcome = "ok"
    THEN [pop_item |-> db[Oldest(db)], db |-> Delete(db, Oldest(db)), failed |-> {}]
    ELSE [pop_item |-> NoRow,
          db |-> IF outcome = "delete_error_kept" THEN db ELSE Delete(db, Oldest(db)),
          failed |-> {db[Oldest(db)].id}]

\* variant: the request is stored as it is
Saved_Plain(request) == request

\* saved_request: the request with '&time=' and the time of the failed send
\* appended, run_thermo.py lines 74-75
Saved(request) == [request |-> request, time |-> "now"]

\* requests left in the store by earlier runs of the program
StoredA == Saved(create_request([temperature |-> 1915, thermo_on |-> 100, heating_on |-> 0,
                                 override |-> None, humidity |-> 4500]))
StoredB == Saved(create_request([temperature |-> 1000, thermo_on |-> 100, heating_on |-> 100,
                                 override |-> None, humidity |-> 4500]))
StoredTables == { <<>>, << Row(1, StoredA) >>, << Row(1, StoredA), Row(2, StoredB) >>,
                  << Row(2, StoredB), Row(3, StoredA) >> }

\* a step of the store: what was popped or pushed
StoreStep(act, row) ==
    [act |-> act, done |-> TRUE, pkt |-> NoPkt, ev |-> NoEval, msgs |-> <<>>,
     again |-> "no", row |-> row]

\* the program starts with what earlier runs left in the store; the threads
\* are started and the main thread is at the drain of the store, lines 142-149
InitStore ==
    /\ thermo_on = FALSE
    /\ relay_on = TRUE
    /\ override_on = FALSE
    /\ override_temp = 1500
    /\ setpoint = 0
    /\ temperature = None
    /\ indoor_temp_str = None
    /\ setpoint_str = None
    /\ gpio_relay = None
    /\ rules = << Rule("Weekdays", 800, 1800), Rule("Everyday", 0, 1900) >>
    /\ non_printing_loops = data_cycles
    /\ thermo_pc = "start"
    /\ message_list = <<>>
    /\ kill_event = FALSE
    /\ kill_timer = FALSE
    /\ main_pc = "drain"
    /\ lan_pc = "run"
    /\ last = NoStep
    /\ prev_eval = Brief(NoEval)
    /\ local_db \in StoredTables
    /\ max_id = IF local_db = <<>> THEN 0 ELSE local_db[Youngest(local_db)].id
    /\ undeleted = {}
    /\ xbee_pc = "run"

\* one turn of the drain loop: the oldest row is popped and sent again as a
\* database message; None ends the drain and the main loop begins
StartupDrain ==
    /\ main_pc = "drain"
    /\ \E outcome \in PopOk :
         LET r == pop(local_db, outcome)
         IN  /\ local_db' = r.db
             /\ undeleted' = undeleted \cup r.failed
             /\ IF r.pop_item = NoRow
                THEN /\ main_pc' = "loop"
                     /\ UNCHANGED message_list
                ELSE /\ message_list' =
                            Append(message_list, LANTxMessage(DBPacket(r.pop_item.message)))
                     /\ UNCHANGED main_pc
             /\ last' = StoreStep("pop", r.pop_item)
    /\ UNCHANGED << engine, rules, non_printing_loops, thermo_pc, kill_event,
                    kill_timer, lan_pc, prev_eval, max_id, xbee_pc >>

\* LAN_TX_MESSAGE for the database when send_http_request returns False: the
\* request is saved in the store, lines 73-78
DispatchLanFailed ==
    /\ main_pc = "loop"
    /\ ~kill_event
    /\ message_list # <<>>
    /\ Head(message_list).id = LAN_TX_MESSAGE
    /\ is_http(Head(message_list))
    /\ Len(local_db) < MaxStore
    /\ message_list' = Tail(message_list)
    /\ \E ok \in BOOLEAN :
         /\ local_db' = push(local_db, Saved(Head(message_list).data.packet), ok)
         /\ max_id' = IF ok /\ RowId(local_db) > max_id THEN RowId(local_db) ELSE max_id
         /\ undeleted' = IF ok THEN undeleted \ {RowId(local_db)} ELSE undeleted
         /\ last' = StoreStep(IF ok THEN "push" ELSE "push_error",
                              IF ok THEN local_db'[Len(local_db')] ELSE NoRow)
    /\ UNCHANGED << engine, rules, non_printing_loops, thermo_pc, kill_event,
                    kill_timer, main_pc, lan_pc, prev_eval, xbee_pc >>

\* a client that asks for the power to be switched off, which uploads
LanPowerOff == LanRun({ <<"1", "TS", "OFF">> }, FALSE)

\* the program with the database out of reach at times
NextStore ==
    \/ StartupDrain
    \/ ThermoStart
    \/ LanPowerOff
    \/ DispatchThermo
    \/ DispatchLan
    \/ DispatchLanFailed
    \/ DispatchDisplay

SpecStore == InitStore /\ [][NextStore]_vars

\* the main thread runs on: the drain loop has no wait in it
SpecStoreFair == SpecStore /\ WF_vars(StartupDrain)

\* the store on its own, as its unit test uses it: any sequence of push and pop
Texts == {StoredA, StoredB}

Push ==
    /\ Len(local_db) < MaxStore
    /\ RowId(local_db) <= MaxId
    /\ \E Requests \in Texts, ok \in BOOLEAN :
         /\ local_db' = push(local_db, Requests, ok)
         /\ max_id' = IF ok /\ RowId(local_db) > max_id THEN RowId(local_db) ELSE max_id
         /\ undeleted' = IF ok THEN undeleted \ {RowId(local_db)} ELSE undeleted
         /\ last' = StoreStep(IF ok THEN "push" ELSE "push_error",
                              IF ok THEN Row(RowId(local_db), Requests) ELSE NoRow)
    /\ UNCHANGED << engine, rules, non_printing_loops, thermo_pc, message_list,
                    kill_event, kill_timer, main_pc, lan_pc, prev_eval, xbee_pc >>

Pop ==
    /\ \E outcome \in PopFaults :
         LET r == pop(local_db, outcome)
         IN  /\ local_db' = r.db
             /\ undeleted' = undeleted \cup r.failed
             /\ last' = [StoreStep("pop", r.pop_item) EXCEPT !.done = (outcome = "ok")]
    /\ UNCHANGED << engine, rules, non_printing_loops, thermo_pc, message_list,
                    kill_event, kill_timer, main_pc, lan_pc, prev_eval, max_id, xbee_pc >>

NextLocalStorage ==
    \/ Push
    \/ Pop

SpecLocalStorage == InitStore /\ [][NextLocalStorage]_vars

\* ---------------------------------------------------------------------------
\* XBee network thread (xbee_network.py) and the dispatch of its messages
\* ---------------------------------------------------------------------------
XBeeRxMessage(Packet) == [id |-> XBEE_RX_MESSAGE, data |-> Packet]

\* struct.unpack raising struct.error
StructError == -66666

\* s[a:b] of Python for 0 <= a: the slice ends where the string ends
Slice(s, a, b) == SubSeq(s, a + 1, IF b < Len(s) THEN b ELSE Len(s))

\* '%02x' % ord(byte)
HexDigits == << "0", "1", "2", "3", "4", "5", "6", "7",
                "8", "9", "a", "b", "c", "d", "e", "f" >>
Hex02(byte) == << HexDigits[(byte \div 16) + 1], HexDigits[(byte % 16) + 1] >>

RECURSIVE binary_print(_, _)
binary_print(bin_data, separator) ==
    IF bin_data = <<>> THEN <<>>
    ELSE LET output == Hex02(Head(bin_data)) \o separator \o
                       binary_print(Tail(bin_data), separator)
         IN  IF separator = <<>> \/ Tail(bin_data) # <<>>
             THEN output
             ELSE SubSeq(output, 1, Len(output) - 1)

\* config.outdoor_radio, '40aeb97f'
outdoor_radio == << "4", "0", "a", "e", "b", "9", "7", "f" >>

\* the four bytes of a float as the sensor radio sends them.  Values are in
\* hundredths and the bytes hold them as a little-endian number, which stands
\* for the IEEE-754 single of the platform.
pack(x) == << x % 256, (x \div 256) % 256, (x \div 65536) % 256, 0 >>

\* struct.unpack('f', bytes): a string of exactly four bytes is required
unpack(bytes) ==
    IF Len(bytes) # 4 THEN StructError
    ELSE bytes[1] + 256 * bytes[2] + 65536 * bytes[3]

\* '%f' % float_value: six decimals, written in millionths
FmtF(x) == x * 10000

\* the label of a data code, or "" for a code that is not recognized
Label(type_byte) ==
    CASE type_byte = TEMPERATURE_CODE -> "temperature"
      [] type_byte = LUMINOSITY_CODE -> "luminosity"
      [] type_byte = PRESSURE_CODE -> "pressure"
      [] type_byte = HUMIDITY_CODE -> "humidity"
      [] type_byte = POWER_CODE -> "power"
      [] type_byte = LUX_CODE -> "luminosity_lux"
      [] type_byte = HEATING_CODE -> "heating_on"
      [] type_byte = THERMOSTAT_CODE -> "thermo_on"
      [] type_byte = BATTERY_SOC_CODE -> "battery_soc"
      [] type_byte = OVERRIDE_CODE -> "override"
      [] OTHER -> ""

Sample(key, value) == [key |-> key, value |-> value]

\* a query string: the radio id and the samples behind it
Query(radio_id, samples) == [radio_id |-> radio_id, samples |-> samples]

\* the empty string, which signals an error
EmptyStr == Text("")

\* variant: the whole payload is counted
data_length_Whole(rf_data) == Len(rf_data)

\* len(data['rf_data']) - 1
data_length(rf_data) == Len(rf_data) - 1

\* variant: no length is refused
length_error_Never(n) == FALSE

\* 'if data_length % 5': the modulus of Python, which is never negative here
length_error(n) == (n % 5) # 0

\* the loop over the sensors from sensor i on: the samples added to resp, or
\* raised when unpack raises
RECURSIVE sensors(_, _, _, _)
sensors(rf_data, i, num_sensors, resp) ==
    IF i >= num_sensors THEN [raised |-> FALSE, resp |-> resp]
    ELSE LET type_byte == rf_data[5 * i + 2]
             float_value == unpack(Slice(rf_data, 5 * i + 2, 5 * i + 7))
         IN  IF Label(type_byte) = ""
             THEN sensors(rf_data, i + 1, num_sensors, resp)
             ELSE IF float_value = StructError
             THEN [raised |-> TRUE, resp |-> resp]
             ELSE sensors(rf_data, i + 1, num_sensors,
                          Append(resp, Sample(Label(type_byte), FmtF(float_value))))

\* _create_request: the query, EmptyStr for a wrong length, or raised
create_xbee_request(data) ==
    IF length_error(data_length(data.rf_data))
    THEN [raised |-> FALSE, resp_str |-> EmptyStr]
    ELSE LET radio_id == binary_print(Slice(data.source_addr_long, 4, 8), <<>>)
             samples == sensors(data.rf_data, 0, data_length(data.rf_data) \div 5, <<>>)
         IN  IF samples.raised
             THEN [raised |-> TRUE, resp_str |-> EmptyStr]
             ELSE [raised |-> FALSE, resp_str |-> Query(radio_id, samples.resp)]

\* 'Outdoor: %.1f' % float_value
Outdoor(x) == [text |-> "Outdoor: ", value |-> Fmt1(x)]

\* _update_display from sensor i on: the display messages handed over, and
\* whether unpack raised
RECURSIVE update_display(_, _, _, _)
update_display(rf_data, i, num_sensors, out) ==
    IF i >= num_sensors THEN [raised |-> FALSE, out |-> out]
    ELSE LET type_byte == rf_data[5 * i + 2]
             float_value == unpack(Slice(rf_data, 5 * i + 2, 5 * i + 7))
         IN  IF type_byte # TEMPERATURE_CODE
             THEN update_display(rf_data, i + 1, num_sensors, out)
             ELSE IF float_value = StructError
             THEN [raised |-> TRUE, out |-> out]
             ELSE update_display(rf_data, i + 1, num_sensors,
                                 Append(out, DisplayStatus(OUTSIDE_TEMP, Outdoor(float_value))))

\* _xbee_event: the messages handed to the event handler before the callback
\* returns or raises
xbee_event(data) ==
    IF data.id # "rx" THEN [raised |-> FALSE, out |-> <<>>]
    ELSE LET r == create_xbee_request(data)
             rx == << XBeeRxMessage(DBPacket(r.resp_str)) >>
             xbee_address == binary_print(Slice(data.source_addr_long, 4, 8), <<>>)
             shown == update_display(data.rf_data, 0,
                                     data_length(data.rf_data) \div 5, <<>>)
         IN  IF r.raised THEN [raised |-> TRUE, out |-> <<>>]
             ELSE IF r.resp_str = EmptyStr THEN [raised |-> FALSE, out |-> <<>>]
             ELSE IF xbee_address # outdoor_radio THEN [raised |-> FALSE, out |-> rx]
             ELSE [raised |-> shown.raised, out |-> rx \o shown.out]

\* payloads: a leading byte and records of a type byte and four bytes
Rec(type_byte, x) == << type_byte >> \o pack(x)

Payloads == { <<>>,
              << 0 >>,
              << 0, 1, 102, 8 >>,
              << 0 >> \o Rec(TEMPERATURE_CODE, 2150),
              << 0 >> \o Rec(TEMP_12BYTE_CODE, 2150),
              << 0 >> \o Rec(TEMPERATURE_CODE, 2150) \o Rec(HUMIDITY_CODE, 4500),
              << 0 >> \o Rec(TEMP_12BYTE_CODE, 2150) \o Rec(TEMPERATURE_CODE, 1915),
              << 0 >> \o Rec(TEMP_12BYTE_CODE, 2150) \o Rec(0, 1915),
              << 0 >> \o Rec(TEMPERATURE_CODE, 2150) \o Rec(TEMP_12BYTE_CODE, 1915),
              << 0 >> \o Rec(TEMP_12BYTE_CODE, 2150) \o Rec(OVERRIDE_CODE, 0) \o << 7 >>,
              << 0 >> \o Rec(TEMPERATURE_CODE, 2150) \o Rec(HUMIDITY_CODE, 4500) \o << 7 >> }

\* the 64-bit addresses of the outdoor radio and of another sensor radio
Radios == { << 0, 19, 162, 0, 64, 174, 185, 127 >>,
            << 0, 19, 162, 0, 64, 171, 151, 120 >> }

RadioData(id, source_addr_long, rf_data) ==
    [id |-> id, source_addr_long |-> source_addr_long, rf_data |-> rf_data]

RadioFrames ==
    { RadioData("rx", a, p) : a \in Radios, p \in Payloads } \cup
    { RadioData("tx_status", << 0, 19, 162, 0, 64, 174, 185, 127 >>, <<>>) }

\* a step of the callback: the frame and what it handed to the event handler
RadioStep(data, r) ==
    [act |-> "xbee", done |-> ~r.raised, pkt |-> NoPkt, ev |-> NoEval,
     msgs |-> r.out, again |-> "no", frame |-> data]

\* a frame arrives and the xbee library calls _xbee_event in its own thread.
\* The library is not part of the sources: whether its thread survives an
\* exception that leaves the callback is not known, so both are possible.
XBeeEvent ==
    /\ xbee_pc = "run"
    /\ ~kill_event
    /\ Len(message_list) < MaxQueue
    /\ \E data \in RadioFrames :
         LET r == xbee_event(data)
         IN  /\ message_list' = message_list \o r.out
             /\ IF r.raised THEN xbee_pc' \in {"run", "crashed"} ELSE xbee_pc' = xbee_pc
             /\ last' = RadioStep(data, r)
    /\ UNCHANGED << engine, rules, non_printing_loops, thermo_pc, kill_event,
                    kill_timer, main_pc, lan_pc, prev_eval, storage >>

\* a message whose id has no branch in dispatch_message reaches the else
\* branch, whose logging calls get_id() on the integer msg_id: AttributeError
\* in the main thread, lines 88-89.  XBeeRxMessage is such a message.
DispatchUnknown ==
    /\ main_pc = "loop"
    /\ ~kill_event
    /\ message_list # <<>>
    /\ Head(message_list).id \notin {XBEE_TX_MESSAGE, THERMO_TX_MESSAGE,
                                     LAN_TX_MESSAGE, DISPLAY_TX_MESSAGE}
    /\ message_list' = Tail(message_list)
    /\ main_pc' = "crashed"
    /\ last' = Step("unknown", FALSE, NoPkt, NoEval, <<>>, "no")
    /\ UNCHANGED << engine, rules, non_printing_loops, thermo_pc, kill_event,
                    kill_timer, lan_pc, prev_eval, storage, xbee_pc >>

\* the radio listener, the start of the thermostat and the main thread from
\* the drain of the store on
NextRadio ==
    \/ StartupDrain
    \/ ThermoStart
    \/ XBeeEvent
    \/ DispatchUnknown
    \/ DispatchLan
    \/ DispatchLanFailed
    \/ DispatchDisplay

SpecRadio == InitStore /\ [][NextRadio]_vars

\* ---------------------------------------------------------------------------
\* Display thread (display.py)
\* ---------------------------------------------------------------------------
\* the commands of the front panel: the program button, and the override
\* button with the set point register of the panel (15 at construction)
PanelCommands == { Command(CMD_THERMO_POWER, STATUS_ON, None),
                   Command(CMD_THERMO_POWER, STATUS_OFF, None),
                   Command(CMD_OVERRIDE, STATUS_ON, 1500),
                   Command(CMD_OVERRIDE, STATUS_OFF, 1500) }

\* run, lines 135-173: a button of the panel is pressed
DisplayRun ==
    /\ ~kill_event
    /\ Len(message_list) < MaxQueue
    /\ \E cmd \in PanelCommands :
         message_list' = Append(message_list, ThermostatTxMessage(DisplayPacket(cmd)))
    /\ last' = NoStep
    /\ UNCHANGED << engine, rules, non_printing_loops, thermo_pc, kill_event,
                    kill_timer, main_pc, lan_pc, prev_eval >>
    /\ UNCHANGED << storage, xbee_pc >>

\* the pass of the control loop with its rule loop in two steps.  The thread
\* has read the sensor (19.15, within the limits), has found the override off
\* and the power on, and is at the rule of the table that applies, line 423:
\* thermo_pc names that rule.
RaceTemp == 1915
AtRule == << "rule1", "rule2", "rule3" >>

EvalScan ==
    /\ thermo_pc = "evaluate"
    /\ Len(message_list) < MaxQueue
    /\ \E now \in Clock :
         LET S1 == evaluate_read(Self, RaceTemp, non_printing_loops = 1)
             r == rule_scan(rules, now.day, now.hour, 0)
         IN  /\ evaluate_branch(S1, RaceTemp) = "rules"
             /\ r.found
             /\ r.rule <= Len(AtRule)
             /\ Commit(S1, message_list)
             /\ thermo_pc' = AtRule[r.rule]
    /\ last' = NoStep
    /\ UNCHANGED << rules, non_printing_loops, kill_event, kill_timer, main_pc,
                    lan_pc, prev_eval, storage, xbee_pc >>

\* then the thread runs the body of the rule loop on the members as they are
\* now, lines 424-441, and the rest of the method, lines 454-464
EvalApply ==
    /\ \E i \in 1..Len(AtRule) :
         /\ thermo_pc = AtRule[i]
         /\ LET S0 == [Self EXCEPT !.update_db = (non_printing_loops = 1)]
                S2 == rule_found(S0, rules[i], RaceTemp)
            IN  \E hread \in HumReads(S2) :
                  Complete(evaluate_finish(S2, RaceTemp, hread), "tick", NoPkt, NoResp,
                           message_list,
                           EvalInfo("ok", RaceTemp, non_printing_loops = 1, "rules",
                                    rules[i].temperature, 0, 0, 0,
                                    S2.relay_on # relay_on))
    /\ thermo_pc' = "loop"
    /\ UNCHANGED << rules, non_printing_loops, kill_event, kill_timer, main_pc,
                    lan_pc, storage, xbee_pc >>

\* the pass of the control loop with _set_relay_status in two steps.  The
\* reading is outside the limits (9.0 or 26.0) and the relay has to change
\* (lines 392-402): the thread has assigned _relay_on, line 354, and is about
\* to write the pin; thermo_pc names the write it is about to make.
LowTemp == 900
HighTemp == 2600

EvalLimit ==
    /\ thermo_pc = "evaluate"
    /\ Len(message_list) < MaxQueue
    /\ \E cur_temp \in {LowTemp, HighTemp} :
         LET S1 == evaluate_read(Self, cur_temp, non_printing_loops = 1)
             RelayStatus == IF cur_temp < MIN_TEMPERATURE THEN RELAY_ON ELSE RELAY_OFF
         IN  /\ evaluate_branch(S1, cur_temp) \in {"min", "max"}
             /\ S1.relay_on # RelayStatus
             /\ Commit([S1 EXCEPT !.relay_on = RelayStatus], message_list)
             /\ thermo_pc' = IF RelayStatus = RELAY_ON THEN "write_on" ELSE "write_off"
    /\ last' = NoStep
    /\ UNCHANGED << rules, non_printing_loops, kill_event, kill_timer, main_pc,
                    lan_pc, prev_eval, storage, xbee_pc >>

\* then the thread writes the pin and hands over the message for the LED, lines
\* 357-364, and runs the rest of the method, lines 454-464
EvalWrite ==
    /\ thermo_pc \in {"write_on", "write_off"}
    /\ LET cur_temp == IF thermo_pc = "write_on" THEN LowTemp ELSE HighTemp
           S0 == [Self EXCEPT !.update_db = TRUE]
           S2 == IF thermo_pc = "write_on"
                 THEN ehandler([S0 EXCEPT !.gpio_relay = 0],
                               DisplayStatus(RELAY_LED, LED_ON))
                 ELSE ehandler([S0 EXCEPT !.gpio_relay = 1],
                               DisplayStatus(RELAY_LED, LED_OFF))
       IN  \E hread \in HumReads(S2) :
             Complete(evaluate_finish(S2, cur_temp, hread), "tick", NoPkt, NoResp,
                      message_list,
                      EvalInfo("ok", cur_temp, non_printing_loops = 1,
                               IF thermo_pc = "write_on" THEN "min" ELSE "max",
                               None, 0, 0, 0, TRUE))
    /\ thermo_pc' = "loop"
    /\ UNCHANGED << rules, non_printing_loops, kill_event, kill_timer, main_pc,
                    lan_pc, storage, xbee_pc >>

\* the program with the front panel in use while the thermostat thread is in
\* its pass
NextRace ==
    \/ ThermoStart
    \/ EvalEnter
    \/ EvalReturn
    \/ EvalScan
    \/ EvalApply
    \/ EvalLimit
    \/ EvalWrite
    \/ DisplayRun
    \/ DispatchThermo
    \/ DispatchLan
    \/ DispatchDisplay

SpecRace == Init /\ [][NextRace]_vars

\* the program with the pass of the control loop in two steps, so that the
\* main thread can run while the thermostat thread is in _evaluate_programming
NextThreads ==
    \/ ThermoStart
    \/ EvalEnter
    \/ EvalReturn
    \/ LanReceive
    \/ DispatchThermo
    \/ DispatchLan
    \/ DispatchDisplay

SpecThreads == Init /\ [][NextThreads]_vars

\* the program with the front panel in use and no LAN client
NextPanel ==
    \/ ThermoStart
    \/ Tick
    \/ DisplayRun
    \/ DispatchThermo
    \/ DispatchLan
    \/ DispatchDisplay

SpecPanel == Init /\ [][NextPanel]_vars

\* the rule loop of _evaluate_programming, lines 420-450, one pass of its
\* while loop at a time.  The tables hold one rule for every day selector
\* and hour, or two rules; the clock is any weekday and hour.
ScanHours == {0, 800, 2399}
ScanTables ==
    { << Rule(d, tm, 1900) >> : d \in DOMAIN RULE_DAYS, tm \in ScanHours }
    \cup { <<>>,
           << Rule("Weekends", 800, 1800), Rule("Sunday", 0, 1900) >>,
           << Rule("Monday", 2399, 1800), Rule("Friday", 800, 1900) >> }
ScanClock == [day : 0..6, hour : {0, 300, 900, 2399}]

\* variant: the day before Monday is not brought back to Sunday
day_back_NoWrap(cur_day) == cur_day - 1

\* lines 445-449: one day back
day_back(cur_day) ==
    IF cur_day = RULE_DAYS["Monday"] THEN RULE_DAYS["Sunday"] ELSE cur_day - 1

InitScan ==
    /\ thermo_on = FALSE
    /\ relay_on = TRUE
    /\ override_on = FALSE
    /\ override_temp = 1500
    /\ setpoint = 0
    /\ temperature = None
    /\ indoor_temp_str = None
    /\ setpoint_str = None
    /\ gpio_relay = None
    /\ rules \in ScanTables
    /\ non_printing_loops = data_cycles
    /\ thermo_pc = "start"
    /\ message_list = <<>>
    /\ kill_event = FALSE
    /\ kill_timer = FALSE
    /\ main_pc = "loop"
    /\ lan_pc = "run"
    /\ last = NoStep
    /\ prev_eval = Brief(NoEval)
    /\ local_db = <<>>
    /\ max_id = 0
    /\ undeleted = {}
    /\ xbee_pc = "run"

\* the pass up to the rule loop, lines 373-420: the reading is within the
\* limits, the override off and the power on; the clock is read
ScanStart ==
    /\ thermo_pc = "evaluate"
    /\ Len(message_list) < MaxQueue
    /\ \E now \in ScanClock :
         LET S1 == evaluate_read(Self, RaceTemp, non_printing_loops = 1)
         IN  /\ evaluate_branch(S1, RaceTemp) = "rules"
             /\ Commit(S1, message_list)
             /\ last' = Step("tick", FALSE, NoPkt,
                             EvalInfo("scanning", RaceTemp, non_printing_loops = 1,
                                      "rules", None, now.day, now.hour, 0, FALSE),
                             S1.out, "no")
    /\ thermo_pc' = "scanning"
    /\ UNCHANGED << rules, non_printing_loops, kill_event, kill_timer, main_pc,
                    lan_pc, prev_eval, storage, xbee_pc >>

\* one pass of the while loop, lines 421-450: the table is scanned in order;
\* with a rule that applies the method runs to its end, lines 424-464,
\* without one the day moves back and the hour grows
ScanPass ==
    /\ thermo_pc = "scanning"
    /\ last.act = "tick"
    /\ last.ev.eval = "scanning"
    /\ LET cur_day == last.ev.day
           cur_hour == last.ev.hour
           i == first_rule(rules, cur_day, cur_hour)
       IN  IF i # 0
           THEN LET S0 == [Self EXCEPT !.update_db = last.ev.force]
                    S2 == rule_found(S0, rules[i], RaceTemp)
                IN  /\ \E hread \in HumReads(S2) :
                         Complete(evaluate_finish(S2, RaceTemp, hread), "tick", NoPkt,
                                  NoResp, message_list,
                                  EvalInfo("ok", RaceTemp, last.ev.force, "rules",
                                           rules[i].temperature, cur_day, cur_hour,
                                           last.ev.steps, S2.relay_on # relay_on))
                    /\ thermo_pc' = "loop"
           ELSE /\ last.ev.steps < MaxScanSteps
                /\ last' = [last EXCEPT !.ev.day = day_back(cur_day),
                                        !.ev.hour = cur_hour + 2400,
                                        !.ev.steps = last.ev.steps + 1]
                /\ UNCHANGED << engine, message_list, thermo_pc, prev_eval >>
    /\ UNCHANGED << rules, non_printing_loops, kill_event, kill_timer, main_pc,
                    lan_pc, storage, xbee_pc >>

\* the control loop over every table; the loop reads the table and its own
\* locals only, and the dispatcher takes its steps between two passes of the
\* control loop
ScanDispatchLan == thermo_pc = "loop" /\ DispatchLan

ScanDispatchDisplay == thermo_pc = "loop" /\ DispatchDisplay

NextScan ==
    \/ ThermoStart
    \/ EvalEnter
    \/ ScanStart
    \/ ScanPass
    \/ ScanDispatchLan
    \/ ScanDispatchDisplay

SpecScan == InitScan /\ [][NextScan]_vars

\* the program with override commands from LAN clients and the front panel
\* in use
OverrideFrames == { <<"1", "PO", "ON", "19.3">>, <<"1", "PO", "OFF">>,
                    <<"1", "PO", "OFF", "19.3">> }

LanOverride == LanRun(OverrideFrames, FALSE)

NextOverride ==
    \/ ThermoStart
    \/ LanOverride
    \/ DisplayRun
    \/ DispatchThermo
    \/ DispatchLan
    \/ DispatchDisplay

SpecOverride == Init /\ [][NextOverride]_vars

\* the LAN server with clients that send every kind of frame, and the
\* dispatcher; the control loop has started and is between two passes
NextLan ==
    \/ ThermoStart
    \/ LanServe
    \/ DispatchThermo
    \/ DispatchLan
    \/ DispatchDisplay
    \/ KillTimer

SpecLan == Init /\ [][NextLan]_vars

\* ---------------------------------------------------------------------------
\* Properties
\* ---------------------------------------------------------------------------
\* whether msgs holds the message m
Has(msgs, m) == \E i \in 1..Len(msgs) : msgs[i] = m

\* the places of the database uploads in msgs
Uploads(msgs) == {i \in 1..Len(msgs) : msgs[i].id = LAN_TX_MESSAGE /\ is_http(msgs[i])}

\* the messages added to the queue by the step of the engine just taken: a pass
\* of the control loop appends, a command is first taken from the head
Emitted ==
    IF last'.act = "tick"
    THEN SubSeq(message_list', Len(message_list) + 1, Len(message_list'))
    ELSE SubSeq(message_list', Len(message_list), Len(message_list'))

\* rule resolution as the specification words it: the first rule in list order
\* whose hour threshold is at most the hour and whose day selector matches the
\* weekday; when there is none, one day back with 24 hours more
WeekDayNames == << "Monday", "Tuesday", "Wednesday", "Thursday", "Friday",
                   "Saturday", "Sunday" >>

DayMatches(selector, weekday) ==
    CASE selector = "Everyday" -> TRUE
      [] selector = "Weekdays" -> weekday \in 0..4
      [] selector = "Weekends" -> weekday \in {5, 6}
      [] OTHER -> WeekDayNames[weekday + 1] = selector

RECURSIVE Resolve(_, _, _, _)
Resolve(table, weekday, hour, days_back) ==
    LET applies == {i \in 1..Len(table) :
                        table[i].time <= hour /\ DayMatches(table[i].day, weekday)}
    IN  IF applies # {}
        THEN table[CHOOSE i \in applies : \A j \in applies : i <= j].temperature
        ELSE IF days_back = 0
        THEN None
        ELSE Resolve(table, (weekday + 6) % 7, hour + 2400, days_back - 1)

\* C1: after every evaluation whose sensor read succeeds with temperature t,
\* the relay is on when t < 10.0 and off when t > 25.0, whatever the power, the
\* override, the setpoint and the rule table are.
C1_LimitsForceRelay ==
    (last.ev.eval = "ok") =>
        /\ (last.ev.t < 1000) => (relay_on = TRUE)
        /\ (last.ev.t > 2500) => (relay_on = FALSE)

\* a pass of the control loop in override mode reads less than 10.0 and
\* switches the relay on
C1_Witness ==
    /\ last.act = "tick"
    /\ last.ev.eval = "ok"
    /\ last.ev.t < 1000
    /\ override_on
    /\ relay_on
    /\ Has(last.msgs, DisplayStatus(RELAY_LED, LED_ON))

\* C2: after every handled ThermoPower command the power equals the
\* subcommand of the command (On: true, Off: false), and immediately after a
\* handled ThermoPower{Off} the relay is off.
C2_PowerOffRelayOff ==
    (last.done /\ last.act = "power") =>
        /\ thermo_on = (last.pkt.packet.subcommand = STATUS_ON)
        /\ (last.pkt.packet.subcommand # STATUS_ON) => (relay_on = FALSE)

\* C3: in an evaluation with 10.0 <= t <= 25.0 and a target (the override
\* setpoint when the override is on, otherwise the resolved rule temperature
\* when the power is on) the relay goes from on to off exactly when it was on
\* and t > target + 0.15, from off to on exactly when it was off and
\* t < target - 0.15, and is left as it was in every other case.
C3_Hysteresis ==
    [][(/\ last'.ev.eval = "ok"
        /\ last'.ev.t >= 1000
        /\ last'.ev.t <= 2500
        /\ (override_on' \/ thermo_on'))
       => LET t == last'.ev.t
              target == IF override_on' THEN override_temp'
                        ELSE Resolve(rules, last'.ev.day, last'.ev.hour, 7)
          IN  relay_on' = IF relay_on /\ t > target + 15 THEN FALSE
                          ELSE IF ~relay_on /\ t < target - 15 THEN TRUE
                          ELSE relay_on]_vars

\* with the relay on and a rule of 19.0 resolved, a reading of 19.15, on the
\* edge of the band, leaves the relay on
C3_Witness ==
    /\ last.ev.eval = "ok"
    /\ last.ev.branch = "rules"
    /\ last.ev.target = 1900
    /\ last.ev.t = 1915
    /\ ~last.ev.switched
    /\ relay_on

\* C4: of two consecutive evaluations that read the same t with the same
\* power, override, setpoint and applicable rule, the second leaves the relay
\* as the first left it.
C4_Idempotent ==
    [][(/\ last'.ev.eval = "ok"
        /\ prev_eval.eval = "ok"
        /\ prev_eval.t = last'.ev.t
        /\ prev_eval.branch = last'.ev.branch
        /\ prev_eval.target = last'.ev.target
        /\ thermo_on' = thermo_on
        /\ override_on' = override_on)
       => relay_on' = relay_on]_vars

\* an evaluation that repeats one that switched the relay
C4_Witness ==
    /\ last.ev.eval = "ok"
    /\ last.again = "after_switch"
    /\ last.ev.branch \in {"override", "rules"}
    /\ ~last.ev.switched

\* C5: the rule search ends with the temperature of the first rule in list
\* order whose hour threshold is at most the hour and whose day selector
\* matches the weekday, taken one day back with 24 hours more while no rule
\* applies; the table [{Weekdays, 8.0, 18.0}, {Everyday, 0.0, 19.0}] at
\* Saturday, hour 3.0 resolves to 19.0; the setpoint becomes that temperature.
C5_RuleResolution ==
    (last.ev.eval = "ok" /\ last.ev.branch = "rules") =>
        /\ last.ev.target = Resolve(rules, last.ev.day, last.ev.hour, 7)
        /\ setpoint = last.ev.target
        /\ (/\ rules = << Rule("Weekdays", 800, 1800), Rule("Everyday", 0, 1900) >>
            /\ last.ev.day = 5
            /\ last.ev.hour = 300) => (setpoint = 1900)

\* the table of the example is resolved at Saturday, hour 3.0
C5_Witness ==
    /\ last.ev.eval = "ok"
    /\ last.ev.branch = "rules"
    /\ rules = << Rule("Weekdays", 800, 1800), Rule("Everyday", 0, 1900) >>
    /\ last.ev.day = 5
    /\ last.ev.hour = 300
    /\ setpoint = 1900

\* C6: for every rule table the rule search of an evaluation (power on,
\* override off, 10 <= t <= 25) ends: it walks back at most 7 days and does
\* not go on scanning.
C6_SearchBounded ==
    (last.ev.branch = "rules") =>
        /\ last.ev.steps <= 7
        /\ last.ev.eval # "scanning"

\* C7: handling Override{On, s} with the power on sets the override on and the
\* override setpoint to s, handling Override{Off} sets the override off and
\* replaces the override setpoint by the supplied value when one is supplied,
\* whatever float it is; both then run one evaluation.
C7_OverrideFollowsCommand ==
    (last.done /\ last.act = "override" /\ thermo_on) =>
        /\ last.ev.eval # "none"
        /\ IF last.pkt.packet.subcommand = STATUS_ON
           THEN override_on /\ override_temp = last.pkt.packet.data
           ELSE /\ ~override_on
                /\ (last.pkt.packet.data # None) => (override_temp = last.pkt.packet.data)

\* C8: handling a Shutdown command leaves the relay off and the power off,
\* enqueues the display update that turns the power indicator off and the
\* acknowledgement XX:ACK for the requesting host, and the shutdown signal is
\* not yet set when the acknowledgement has been enqueued.
C8_ShutdownRelayOff ==
    (last.done /\ last.act = "shutdown") =>
        /\ relay_on = FALSE
        /\ thermo_on = FALSE
        /\ Has(last.msgs, DisplayStatus(POWER_LED, LED_OFF))
        /\ Has(last.msgs, LANTxMessage(DataPacket(last.pkt.host, last.pkt.port,
                                                  Text("XX:ACK"))))
        /\ Has(message_list, LANTxMessage(DataPacket(last.pkt.host, last.pkt.port,
                                                     Text("XX:ACK"))))
        /\ ~kill_event

\* C9: a pass of the control loop whose sensor read fails changes no member
\* of the engine (power, relay, override, override setpoint, setpoint, last
\* temperature, display strings), enqueues no message, and leaves the control
\* loop running.
C9_FailedReadSkips ==
    [][(last'.act = "tick" /\ last'.ev.eval = "fail")
       => /\ UNCHANGED engine
          /\ message_list' = message_list
          /\ thermo_pc' = "loop"
          /\ ~kill_event']_vars

\* a pass with a failed read after a reading has been stored
C9_Witness ==
    /\ last.act = "tick"
    /\ last.ev.eval = "fail"
    /\ temperature # None
    /\ override_on
    /\ thermo_pc = "loop"

\* C10: an evaluation with a successful sensor read enqueues exactly one
\* database upload, carrying the temperature measured in it, when the relay
\* changed in it or the update is forced, and no database upload otherwise.
C10_UploadOnChangeOrForce ==
    [][(last'.ev.eval = "ok")
       => LET ups == Uploads(Emitted)
          IN  IF (relay_on' # relay_on) \/ last'.ev.force
              THEN /\ Cardinality(ups) = 1
                   /\ \A i \in ups : Emitted[i].data.packet.temperature = last'.ev.t
              ELSE ups = {}]_vars

\* a pass that is not forced switches the relay and uploads
C10_Witness ==
    /\ last.act = "tick"
    /\ last.ev.eval = "ok"
    /\ ~last.ev.force
    /\ last.ev.switched
    /\ Uploads(last.msgs) # {}

\* C11: set_relay(x) and set_power(x) called in any state of the engine change
\* nothing and enqueue nothing when x is the value already held; otherwise
\* they set the value to x and enqueue exactly the one display update of the
\* relay LED, respectively of the program button, with the new value.
C11_SettersIdempotent ==
    \A x \in BOOLEAN :
        LET R == set_relay_status(Self, x)
            P == set_thermo_status(Self, x)
        IN  /\ (x = relay_on) => (R = Self)
            /\ (x # relay_on) =>
                   /\ R.relay_on = x
                   /\ R.out = << DisplayStatus(RELAY_LED, IF x THEN LED_ON ELSE LED_OFF) >>
                   /\ [R EXCEPT !.relay_on = relay_on, !.gpio_relay = gpio_relay,
                                !.out = <<>>] = Self
            /\ (x = thermo_on) => (P = Self)
            /\ (x # thermo_on) =>
                   /\ P.thermo_on = x
                   /\ P.out = << DisplayStatus(PROGRAM_BTN, IF x THEN BTN_ON ELSE BTN_OFF) >>
                   /\ [P EXCEPT !.thermo_on = thermo_on, !.out = <<>>] = Self

\* the power is switched off and the relay on by one command: each setter has
\* changed its value and enqueued its display update
C11_Witness ==
    /\ last.act = "power"
    /\ ~thermo_on
    /\ relay_on
    /\ Has(last.msgs, DisplayStatus(PROGRAM_BTN, BTN_OFF))
    /\ Has(last.msgs, DisplayStatus(RELAY_LED, LED_ON))

\* the display updates of the controls sub among msgs
Shown(msgs, subs) ==
    {i \in 1..Len(msgs) : /\ msgs[i].id = DISPLAY_TX_MESSAGE
                          /\ msgs[i].data.packet.subcommand \in subs}

\* the replies to LAN clients among msgs
Replies(msgs) == {i \in 1..Len(msgs) : msgs[i].id = LAN_TX_MESSAGE /\ ~is_http(msgs[i])}

\* C12: a command of the front panel enqueues no LAN reply and no display
\* update of the control the panel already shows: the program button for a
\* power command, the override button and scale for an override command.
C12_PanelCommandsSilent ==
    (last.done /\ last.pkt.host = "DISPLAY") =>
        /\ Replies(last.msgs) = {}
        /\ (last.act = "power") => (Shown(last.msgs, {PROGRAM_BTN}) = {})
        /\ (last.act = "override") => (Shown(last.msgs, {OVER_BTN, OVER_SCALE}) = {})

\* C13: no method of the engine that writes its state runs concurrently with
\* another: no command is handled by the main thread while the thermostat
\* thread is in _evaluate_programming.
C13_OneWriter ==
    ~(/\ thermo_pc = "evaluate"
      /\ last.act \in {"power", "override", "shutdown"}
      /\ last.done)

\* C14: the dispatcher takes the messages in the order of their enqueueing,
\* one at a time and each once: a step leaves the queue alone, or appends at
\* its tail, or, in the main loop, takes its head and appends what the
\* handling of that message enqueues.
C14_FifoDispatch ==
    [][ LET n == Len(message_list)
            m == Len(message_list')
        IN  \/ /\ m >= n
               /\ SubSeq(message_list', 1, n) = message_list
            \/ /\ main_pc = "loop"
               /\ n > 0
               /\ m >= n - 1
               /\ SubSeq(message_list', 1, n - 1) = Tail(message_list) ]_vars

\* a command of the panel was taken from the head of the queue and handled, and
\* the messages of its handling wait in the queue
C14_Witness ==
    /\ last.act = "power"
    /\ last.pkt.host = "DISPLAY"
    /\ last.done
    /\ Len(message_list) >= 2

\* C15: every message enqueued before the main loop observes the shutdown has
\* been routed when the loop exits: the queue is empty once the loop has ended.
C15_DrainedAtExit ==
    (main_pc = "exited") => (message_list = <<>>)

\* C16: every frame received from a LAN client leads to a reply to that
\* client.  As the replies come from the handling of the frame only, the
\* handling of a frame never ends with nothing handed over: neither a reply
\* nor a command that the engine will answer.
C16_EveryFrameAnswered ==
    (last.act = "lan") =>
        \E i \in 1..Len(last.msgs) :
            /\ last.msgs[i].id \in {LAN_TX_MESSAGE, THERMO_TX_MESSAGE}
            /\ last.msgs[i].data.host = last.host

\* the reply '<op>:NACK' to a frame, 'NACK' when the frame has no operation
Nack(host_address, tokens) ==
    LANTxMessage(DataPacket(host_address, tokens[1],
        Text(IF Len(tokens) >= 2 /\ tokens[2] # "" THEN tokens[2] \o ":NACK" ELSE "NACK")))

\* C17: a frame that does not decode to a command is answered by '<op>:NACK',
\* no command is forwarded, and the LAN server keeps running.
C17_MalformedNacked ==
    (last.act = "lan" /\ last.frame \in Malformed) =>
        /\ last.msgs = << Nack(last.host, last.frame) >>
        /\ lan_pc = "run"

\* the command of the protocol table for the well-formed frames
ProtocolTable(tokens) ==
    CASE tokens = <<"7", "TS", "ON">> -> Command(CMD_THERMO_POWER, STATUS_ON, None)
      [] tokens = <<"7", "TS", "OFF">> -> Command(CMD_THERMO_POWER, STATUS_OFF, None)
      [] tokens = <<"7", "PO", "ON", "21.5">> -> Command(CMD_OVERRIDE, STATUS_ON, 2150)
      [] tokens = <<"7", "PO", "OFF">> -> Command(CMD_OVERRIDE, STATUS_OFF, None)
      [] tokens = <<"7", "PO", "OFF", "19.3">> -> Command(CMD_OVERRIDE, STATUS_OFF, 1930)
      [] tokens = <<"7", "CR", "GET">> -> Command(CMD_TIME_REQUEST, STATUS_GET, None)
      [] tokens = <<"7", "ST">> -> Command(CMD_STATUS, None, None)
      [] tokens = <<"7", "XX">> -> Command(CMD_SHUTDOWN, None, None)

\* C18: a well-formed frame is decoded to exactly the command of the protocol
\* table, and forwarded as one message to the engine that carries the host of
\* the client and the correlation id of the frame.
C18_DecodeWellFormed ==
    (last.act = "lan" /\ last.frame \in WellFormed) =>
        /\ last.done
        /\ last.msgs = << ThermostatTxMessage(DataPacket(last.host, "7",
                                                         ProtocolTable(last.frame))) >>
        /\ message_list[Len(message_list)] = last.msgs[1]

\* '7:PO:ON:21.5' has been received and forwarded
C18_Witness ==
    /\ last.act = "lan"
    /\ last.frame = <<"7", "PO", "ON", "21.5">>
    /\ message_list # <<>>
    /\ message_list[Len(message_list)].id = THERMO_TX_MESSAGE
    /\ message_list[Len(message_list)].data.packet.data = 2150

\* C19: the handling of a command of a LAN client enqueues the reply to that
\* client as its last message, after every display update and database upload
\* of the command.  For '1:TS:ON' received with the power off the handling
\* enqueues the display update that turns the program button on, runs one
\* evaluation, and the reply is 'TS:ACK' with the correlation id 1.
C19_PowerOnReplyLast ==
    [][ (last'.done /\ last'.pkt.host \in Hosts) =>
            LET msgs == last'.msgs
                n == Len(msgs)
            IN  /\ message_list' = Tail(message_list) \o msgs
                /\ Replies(msgs) = {n}
                /\ msgs[n].data.host = last'.pkt.host
                /\ msgs[n].data.port = last'.pkt.port
                /\ ( /\ last'.pkt.packet = Command(CMD_THERMO_POWER, STATUS_ON, None)
                     /\ last'.pkt.port = "1"
                     /\ ~thermo_on )
                   => /\ thermo_on'
                      /\ msgs[n].data.packet = Text("TS:ACK")
                      /\ \E i \in 1..n : msgs[i] = DisplayStatus(PROGRAM_BTN, BTN_ON)
                      /\ Shown(msgs, {PROGRAM_BTN}) \subseteq {1}
                      /\ last'.ev.eval \in {"ok", "fail"} ]_vars

\* '1:TS:ON' has been handled with the power off: the program button is turned
\* on, the database is updated and the reply is the last message
C19_Witness ==
    /\ last.act = "power"
    /\ last.done
    /\ last.pkt.packet.subcommand = STATUS_ON
    /\ last.pkt.port = "1"
    /\ Has(last.msgs, DisplayStatus(PROGRAM_BTN, BTN_ON))
    /\ Uploads(last.msgs) # {}
    /\ last.msgs[Len(last.msgs)] = LANTxMessage(DataPacket("h1", "1", Text("TS:ACK")))

\* C20: a status query handled in any state, before the first successful read
\* of the sensor included, enqueues exactly one reply, whose fields are the
\* power, relay, temperature, set point and override of the engine, and the
\* program goes on.
C20_StatusAnswered ==
    (last.act = "status") =>
        /\ main_pc = "loop"
        /\ last.msgs = << LANTxMessage(DataPacket(last.pkt.host, last.pkt.port,
                                                  return_status(Self))) >>

\* the main loop takes a database message from the head of the queue
HttpDispatch ==
    /\ main_pc = "loop"
    /\ message_list # <<>>
    /\ Head(message_list).id = LAN_TX_MESSAGE
    /\ is_http(Head(message_list))
    /\ message_list' = Tail(message_list)

C23_ReplayedNotPushedBack ==
    [][ (HttpDispatch /\ "time" \in DOMAIN Head(message_list).data.packet)
            => (local_db' = local_db) ]_vars

\* C24: the store is a first-in first-out queue.  A push that succeeds puts its
\* text behind every row of the table; a pop that succeeds returns the text
\* that has been in the table longest and removes that row; a pop on the empty
\* table returns None and leaves the table empty.
C24_StoreFifo ==
    [][ /\ (last'.act = "push") =>
              /\ Len(local_db') = Len(local_db) + 1
              /\ SubSeq(local_db', 1, Len(local_db)) = local_db
              /\ local_db'[Len(local_db')].message = last'.row.message
        /\ (last'.act = "pop" /\ last'.done) =>
              IF local_db = <<>>
              THEN last'.row = NoRow /\ local_db' = <<>>
              ELSE /\ last'.row.message = Head(local_db).message
                   /\ local_db' = Tail(local_db) ]_vars

\* a text pushed behind a row of an earlier run has been returned after that
\* row, by the pop that emptied the table
C24_Witness ==
    /\ last.act = "pop"
    /\ last.done
    /\ last.row = Row(3, StoredB)
    /\ local_db = <<>>

\* C25: every push that succeeds gives its row an id greater than the id of
\* every row pushed before it, the rows that have since been popped included
\* (max_id is the largest id given so far).
C25_IdsIncrease ==
    [][ (last'.act = "push") => (last'.row.id > max_id) ]_vars

\* C25 as the code has it: a push that succeeds gives its row an id greater
\* than the id of every row in the table at that time, and 1 in an empty table.
C25_IdsAboveStored ==
    [][ (last'.act = "push") =>
            /\ \A i \in 1..Len(local_db) : last'.row.id > local_db[i].id
            /\ (local_db = <<>>) => (last'.row.id = 1) ]_vars

\* a push into the emptied table has given an id again that an earlier row had
C25_Witness ==
    /\ last.act = "push"
    /\ last.row.id = 1
    /\ max_id > 1
    /\ local_db = << last.row >>

\* C26: a row that a pop has read but could not delete is never returned by a
\* later pop (undeleted holds the ids of such rows).
C26_UndeletedNotDelivered ==
    (last.act = "pop" /\ last.row # NoRow) => (last.row.id \notin undeleted)

\* C27: a message that carries the upload query of a radio frame is routed
\* to the database path when the main loop takes it: the query is sent, or
\* saved in the store when the send fails, and the main loop goes on.
C27_RadioQuerySent ==
    [][ ( /\ main_pc = "loop"
          /\ message_list # <<>>
          /\ Head(message_list).id = XBEE_RX_MESSAGE
          /\ message_list' = Tail(message_list) )
            => /\ main_pc' = "loop"
               /\ \/ local_db' = local_db
                  \/ local_db' = push(local_db, Saved(Head(message_list).data.packet), TRUE) ]_vars

\* C28: a payload whose length minus 1 is not divisible by 5, the empty
\* payload included, is dropped as a whole: the callback hands nothing to the
\* event handler, the queue is as it was, and the listener is still running.
C28_WrongLengthDropped ==
    [][ ( /\ last'.act = "xbee"
          /\ last'.frame.id = "rx"
          /\ (Len(last'.frame.rf_data) - 1) % 5 # 0 )
            => /\ last'.done
               /\ last'.msgs = <<>>
               /\ message_list' = message_list
               /\ xbee_pc' = "run" ]_vars

\* the empty payload has been dropped and the listener is running
C28_Witness ==
    /\ last.act = "xbee"
    /\ last.frame.id = "rx"
    /\ last.frame.rf_data = <<>>
    /\ last.msgs = <<>>
    /\ xbee_pc = "run"

RadioReadings(rf_data) ==
    LET k == (Len(rf_data) - 1) \div 5
        rec == [i \in 1..k |->
                  [type_byte |-> rf_data[5 * (i - 1) + 2],
                   value |-> unpack(SubSeq(rf_data, 5 * (i - 1) + 3, 5 * (i - 1) + 6))]]
        known == SelectSeq(rec, LAMBDA r : Label(r.type_byte) # "")
    IN  [i \in 1..Len(known) |-> Sample(Label(known[i].type_byte), FmtF(known[i].value))]

\* C30: for a payload of length 1 + 5k the decoded frame holds one sample for
\* each record with a type byte of the enumeration, in payload order, and
\* nothing for the others.
C30_OneSamplePerRecord ==
    ( /\ last.act = "xbee"
      /\ last.frame.id = "rx"
      /\ (Len(last.frame.rf_data) - 1) % 5 = 0 )
        => /\ last.done
           /\ last.msgs # <<>>
           /\ last.msgs[1].data.packet.samples = RadioReadings(last.frame.rf_data)

\* the payload holds a record with the temperature code
HasTemperature(rf_data) ==
    \E i \in 1..((Len(rf_data) - 1) \div 5) : rf_data[5 * (i - 1) + 2] = TEMPERATURE_CODE

\* C31: for a frame of valid length, a display update of the outdoor
\* temperature is handed to the event handler exactly if the frame comes from
\* the outdoor radio and holds a temperature record, and it comes behind the
\* database message of the frame.
C31_OutdoorShown ==
    ( /\ last.act = "xbee"
      /\ last.frame.id = "rx"
      /\ (Len(last.frame.rf_data) - 1) % 5 = 0 )
        => LET shown == { i \in 1..Len(last.msgs) : last.msgs[i].id = DISPLAY_TX_MESSAGE }
               outdoor == binary_print(SubSeq(last.frame.source_addr_long, 5, 8), <<>>)
                              = outdoor_radio
           IN  /\ (shown # {}) <=> (outdoor /\ HasTemperature(last.frame.rf_data))
               /\ \A i \in shown :
                     /\ i > 1
                     /\ last.msgs[1].id = XBEE_RX_MESSAGE
                     /\ last.msgs[i] = DisplayStatus(OUTSIDE_TEMP, last.msgs[i].data.packet.data)

\* C32: once the kill event is set, every thread leaves its loop and the main
\* thread leaves its own, so that the joins return.
C32_WorkersExit ==
    kill_event ~> ( /\ thermo_pc = "done"
                    /\ lan_pc # "run"
                    /\ xbee_pc # "run"
                    /\ main_pc = "exited" )

C34_DisplayOnChange ==
    [][ (last'.act = "tick" /\ last'.done /\ last'.ev.eval = "ok") =>
          LET temps == Shown(last'.msgs, {INSIDE_TEMP})
              points == Shown(last'.msgs, {SETPOINT_TEMP})
          IN  /\ (temps # {}) <=> (Fmt1(last'.ev.t) # indoor_temp_str)
              /\ \A i \in temps : last'.msgs[i] = DisplayStatus(INSIDE_TEMP, Fmt1(last'.ev.t))
              /\ Cardinality(temps) <= 1
              /\ indoor_temp_str' = Fmt1(last'.ev.t)
              /\ (points # {}) <=> (Fmt1(setpoint') # setpoint_str)
              /\ \A i \in points : last'.msgs[i] = DisplayStatus(SETPOINT_TEMP, Fmt1(setpoint'))
              /\ Cardinality(points) <= 1
              /\ setpoint_str' = Fmt1(setpoint') ]_vars

\* a pass has read the temperature of the pass before it and kept the set
\* point: nothing is sent to the two fields
C34_Witness ==
    /\ last.act = "tick"
    /\ last.done
    /\ last.ev.eval = "ok"
    /\ prev_eval.t = temperature
    /\ indoor_temp_str = Fmt1(temperature)
    /\ setpoint_str = Fmt1(setpoint)
    /\ Shown(last.msgs, {INSIDE_TEMP, SETPOINT_TEMP}) = {}

\* C35: in every state, under every interleaving of the pass of the
\* thermostat thread with the commands handled by the main thread, the set
\* point is the override set point whenever the override is on.
C35_OverrideSetpoint ==
    override_on => (setpoint = override_temp)

\* C36: whenever no call of _set_relay_status is in progress, under every
\* interleaving of the pass of the thermostat thread with the commands handled
\* by the main thread, the value last written to the relay pin (0 = heating
\* on, 1 = heating off) and the state of the relay LED last handed over for
\* the display agree with relay_on.  A pin never written and a queue without
\* a message for the LED are not held against the statement.
C36_RelayAgrees ==
    (thermo_pc \notin {"write_on", "write_off"}) =>
        /\ (gpio_relay # None) => ((gpio_relay = 0) <=> relay_on)
        /\ \A i \in Shown(message_list, {RELAY_LED}) :
             (\A j \in Shown(message_list, {RELAY_LED}) : j <= i) =>
                 (message_list[i].data.packet.data =
                      IF relay_on THEN LED_ON ELSE LED_OFF)

\* C37: while the power is off, no pass of the control loop that measures a
\* temperature within [MIN_TEMPERATURE, MAX_TEMPERATURE] changes relay_on,
\* whether the override is on or off.
C37_OffNoRelayChange ==
    [][ ( /\ last'.act = "tick"
          /\ last'.done
          /\ last'.ev.eval = "ok"
          /\ ~thermo_on
          /\ last'.ev.t >= MIN_TEMPERATURE
          /\ last'.ev.t <= MAX_TEMPERATURE )
        => (relay_on' = relay_on) ]_vars

\* C38: an Override command, On or Off, from the LAN or from the panel,
\* handled while the power is off is rejected: a LAN client is answered
\* 'PO:NACK' and the panel nothing, the members of the engine are unchanged,
\* no message for the display is enqueued and no evaluation is run.
C38_OverrideRejectedOff ==
    [][ (last'.act = "override" /\ ~thermo_on) =>
          /\ last'.done
          /\ last'.ev = NoEval
          /\ UNCHANGED engine
          /\ last'.msgs = IF last'.pkt.host # "DISPLAY"
                          THEN << LANTxMessage(DataPacket(last'.pkt.host, last'.pkt.port,
                                                          Text("PO:NACK"))) >>
                          ELSE <<>>
          /\ message_list' = Tail(message_list) \o last'.msgs ]_vars

C38_Witness ==
    /\ last.act = "override"
    /\ ~thermo_on
    /\ last.pkt.host # "DISPLAY"
    /\ last.pkt.packet.subcommand = STATUS_ON
    /\ ~override_on
    /\ Has(message_list, LANTxMessage(DataPacket(last.pkt.host, last.pkt.port,
                                                 Text("PO:NACK"))))

\* C39: for every table that holds a rule, with the hours of its rules in
\* [0, 24), and every weekday and hour of the clock, the rule loop ends after
\* at most 7 steps of one day back, and the weekday stays in Monday..Sunday
\* all along; the empty table is the only one the loop never ends for.
C39_ScanEndsInAWeek ==
    (last.act = "tick" /\ last.ev.branch = "rules") =>
        /\ last.ev.day \in RULE_DAYS["Monday"]..RULE_DAYS["Sunday"]
        /\ (rules # <<>>) =>
              /\ last.ev.steps <= 7
              /\ (last.ev.steps = 7) => (first_rule(rules, last.ev.day, last.ev.hour) # 0)
              /\ rule_scan(rules, last.ev.day, last.ev.hour, last.ev.steps).found
        /\ (rules = <<>>) => (last.ev.eval = "scanning")

C39_Witness ==
    /\ last.act = "tick"
    /\ last.done
    /\ last.ev.eval = "ok"
    /\ last.ev.steps = 7
    /\ rules = << Rule("Tuesday", 2399, 1900) >>
    /\ last.ev.day = RULE_DAYS["Tuesday"]
    /\ setpoint = 1900

\* C40: routing a message whose id has no branch in the dispatcher only
\* logs a warning and drops the message: the members of the engine and the
\* store are unchanged, nothing is enqueued, and the main loop is still
\* running for the messages that follow.
C40_UnknownDropped ==
    [][ (last'.act = "unknown") =>
          /\ message_list' = Tail(message_list)
          /\ UNCHANGED << engine, storage >>
          /\ main_pc' = "loop" ]_vars

====
